---- MODULE Spec2Model ----
(***************************************************************************)
(* okta-auth-mcp: the Session Store (auth/session_store.py), the browser   *)
(* controller (browser/controller.py), the login heuristics engine and the *)
(* two lifecycle operations perform_login / verify_session (auth/login.py).*)
(*                                                                         *)
(* Eight specifications share this module:                                 *)
(*   SpecKey    _domain_key as a pure function of url strings              *)
(*   SpecStore  the Session Store operations on the sessions directory     *)
(*   SpecList   list_sessions on the directories that saves leave          *)
(*   Spec       perform_login / verify_session, step by step               *)
(*   SpecLive   one perform_login call whose awaits all come back          *)
(*   SpecTasks  two perform_login tasks of one event loop, same domain key *)
(*   SpecCascade  fill_first_match / click_first_match, step by step       *)
(*   SpecLaunch   _launch_regular / _launch_persistent, launch by launch   *)
(***************************************************************************)
EXTENDS Integers, Sequences, FiniteSets, TLC

VARIABLES
    kUrlA,      \* SpecKey: first url handed to _domain_key
    kUrlB,      \* SpecKey: second url handed to _domain_key
    kRetA,      \* SpecKey: outcome of _domain_key(kUrlA)
    kRetB,      \* SpecKey: outcome of _domain_key(kUrlB)
    kpc,        \* SpecKey: "a", "b" (the next call) or "done"
    files,      \* SESSIONS_DIR: file name -> content
    sOp,        \* SpecStore: the last Session Store call, its arguments and outcome
    sBefore,    \* SpecStore: SESSIONS_DIR as it was before that call
    pc,         \* Spec: where the running perform_login / verify_session is
    call,       \* Spec: the running call and its arguments
    res,        \* Spec: what the call holds: driver, browser, context, temp file
    launches,   \* Spec: browser_type.launch calls made by the call
    signalSeen, \* Spec: the call saw the page off the identity provider with no login field
    log,        \* Spec: the fills and clicks the call made on the page, in order
    snap,       \* Spec: SESSIONS_DIR as it was when the call started
    loc,        \* Spec: locals of auto_login / perform_login / verify_session
    exc,        \* Spec: the exception travelling up the stack, if any
    pending,    \* Spec: the value of the return statement being executed, if any
    result,     \* Spec: what the caller got
    deleted,    \* Spec: keys whose session was deleted since it was last saved
    driverErr,  \* Spec: the browser driver raised an error during the call
    tpc,        \* SpecTasks: where each of the concurrent perform_login tasks is
    tmpOf,      \* SpecTasks: the content of each task's temporary file
    saved,      \* SpecTasks: the tasks whose save_session returned, in that order
    cKind,      \* SpecCascade: "fill" for fill_first_match, "click" for click_first_match
    cOuts,      \* SpecCascade: what each selector's candidate does when tried
    cIdx,       \* SpecCascade: the position of the for loop in the selectors
    cTrace,     \* SpecCascade: the calls made on the page, in order
    cRet,       \* SpecCascade: what the helper returned (None while it runs)
    lCfg,       \* SpecLaunch: the launch method and the BrowserConfig's name and channel
    lAns,       \* SpecLaunch: what the driver answers to the first and to the second launch
    lCalls,     \* SpecLaunch: the launch calls made, in order
    lOut        \* SpecLaunch: how the launch method ended

keyVars == <<kUrlA, kUrlB, kRetA, kRetB, kpc>>
storeVars == <<files, sOp, sBefore>>
callVars == <<pc, call, res, launches, signalSeen, log, snap, loc, exc, pending, result, deleted,
              driverErr>>

taskVars == <<tpc, tmpOf, saved>>
cascadeVars == <<cKind, cOuts, cIdx, cTrace, cRet>>
launchVars == <<lCfg, lAns, lCalls, lOut>>

vars == <<kUrlA, kUrlB, kRetA, kRetB, kpc, files, sOp, sBefore,
          pc, call, res, launches, signalSeen, log, snap, loc, exc, pending, result, deleted,
          driverErr, tpc, tmpOf, saved, cKind, cOuts, cIdx, cTrace, cRet,
          lCfg, lAns, lCalls, lOut>>

None == "None"

\* The variables of Spec, in the specifications that run no lifecycle call.
CallVarsUnused ==
    /\ pc = "idle" /\ call = [op |-> "none"] /\ res = <<>> /\ launches = 0
    /\ signalSeen = FALSE /\ log = <<>> /\ snap = <<>> /\ loc = <<>>
    /\ exc = [type |-> None] /\ pending = [kind |-> "none"] /\ result = [kind |-> "none"]
    /\ deleted = {} /\ driverErr = FALSE

\* The variables of SpecTasks, in the specifications without concurrent tasks.
TasksUnused == tpc = <<>> /\ tmpOf = <<>> /\ saved = <<>>

\* The variables of SpecCascade, in the specifications that run no helper alone.
CascadeUnused ==
    cKind = None /\ cOuts = <<>> /\ cIdx = 0 /\ cTrace = <<>> /\ cRet = None

\* The variables of SpecLaunch, in the specifications that run no launch alone.
LaunchUnused == lCfg = <<>> /\ lAns = <<>> /\ lCalls = <<>> /\ lOut = <<>>

(***************************************************************************)
(* Strings are sequences of one-character strings.                         *)
(***************************************************************************)

\* Longest host part of the urls drawn in SpecKey.
MaxHostLen == 2

\* The characters host parts are built from: a lower-case letter, an
\* upper-case letter, the port separator and the replacement character.
HostChars == {"a", "B", ":", "_"}

RECURSIVE SeqsUpTo(_, _)
SeqsUpTo(S, n) ==
    IF n = 0 THEN {<<>>}
    ELSE LET shorter == SeqsUpTo(S, n - 1)
         IN  shorter \cup {Append(s, c) : s \in {t \in shorter : Len(t) = n - 1}, c \in S}

\* str.lower() on one character
LowerChar(c) == IF c = "B" THEN "b" ELSE c

\* str.lower()
Lower(s) == [i \in 1..Len(s) |-> LowerChar(s[i])]

\* str.replace(old, new) for one-character old and new
Replace(s, old, new) == [i \in 1..Len(s) |-> IF s[i] = old THEN new ELSE s[i]]

\* str.find(c): the first index (1-based) holding a character of cs at or
\* after position from, 0 when there is none
FindFrom(s, cs, from) ==
    LET hits == {i \in from..Len(s) : s[i] \in cs}
    IN  IF hits = {} THEN 0 ELSE CHOOSE i \in hits : \A j \in hits : i <= j

Contains(s, c) == \E i \in 1..Len(s) : s[i] = c

\* urllib.parse.scheme_chars restricted to UrlChars (letters, digits, "+-.")
SchemeChars == {"a", "B"}

\* urlsplit: the text after an accepted "scheme:" prefix, else the url itself
AfterScheme(url) ==
    LET i == FindFrom(url, {":"}, 1)
    IN  IF i > 1 /\ \A j \in 1..(i - 1) : url[j] \in SchemeChars
        THEN SubSeq(url, i + 1, Len(url))
        ELSE url

\* urlsplit: the accepted scheme, lower-cased, or the empty string
UrlScheme(url) ==
    LET i == FindFrom(url, {":"}, 1)
    IN  IF i > 1 /\ \A j \in 1..(i - 1) : url[j] \in SchemeChars
        THEN Lower(SubSeq(url, 1, i - 1))
        ELSE <<>>

\* urlsplit / _splitnetloc: the text between a leading "//" and the first of
\* "/", "?", "#"; empty when the url (after its scheme) does not start "//"
RawNetloc(url) ==
    LET rest == AfterScheme(url)
    IN  IF Len(rest) >= 2 /\ rest[1] = "/" /\ rest[2] = "/"
        THEN LET d == FindFrom(rest, {"/", "?", "#"}, 3)
             IN  SubSeq(rest, 3, IF d = 0 THEN Len(rest) ELSE d - 1)
        ELSE <<>>

\* urlsplit raises ValueError("Invalid IPv6 URL") for a netloc holding one
\* bracket without the other
UrlRaises(url) ==
    LET n == RawNetloc(url)
    IN  (Contains(n, "[") /\ ~Contains(n, "]")) \/ (Contains(n, "]") /\ ~Contains(n, "["))

\* urlparse(url).netloc
Netloc(url) == RawNetloc(url)

\* The outcome of a call: a value, or an exception that reached the caller.
Ret(v) == [raised |-> FALSE, value |-> v, exc |-> None]
Raise(e) == [raised |-> TRUE, exc |-> e]

\* A plausible slip: only ':' is replaced, '/' is kept.
DomainKeyOfHostKeepSlash(host, url) ==
    LET h == IF host = <<>> THEN Lower(url) ELSE host
    IN  Replace(h, ":", "_")

\* A plausible slip: the port is cut off the host before the key is built.
DomainKeyOfHostDropPort(host, url) ==
    LET h == IF host = <<>> THEN Lower(url) ELSE host
        c == FindFrom(h, {":"}, 1)
        cut == IF host # <<>> /\ c > 0 THEN SubSeq(h, 1, c - 1) ELSE h
    IN  Replace(Replace(cut, ":", "_"), "/", "_")

\* _domain_key lines 22-24, given host = urlparse(url).netloc.lower()
DomainKeyOfHost(host, url) ==
    LET h == IF host = <<>> THEN Lower(url) ELSE host
    IN  Replace(Replace(h, ":", "_"), "/", "_")

\* _domain_key(url): the key, for a url urlparse accepts
DomainKey(url) == DomainKeyOfHost(Lower(Netloc(url)), url)

\* _domain_key(url) as a call: urlparse's ValueError is not caught
DomainKeyCall(url) ==
    IF UrlRaises(url) THEN Raise("ValueError") ELSE Ret(DomainKey(url))


(***************************************************************************)
(* File contents and JSON values.                                          *)
(***************************************************************************)

\* A file that does not exist.
Absent == [kind |-> "absent"]
\* Text json.load rejects: "{bad json", an empty or a cut-off file.
Garbage == [kind |-> "garbage"]
\* The text json.dump(v, indent=2) writes ("indent2"), or another
\* serialisation of the same value ("compact").
JsonText(v, fmt) == [kind |-> "json", fmt |-> fmt, val |-> v]

\* The value of a key of a JSON object.
FAbsent == [p |-> "absent"]
FNull == [p |-> "null"]
FList(items) == [p |-> "list", items |-> items]
FStr(str) == [p |-> "str", str |-> str]
FInt(n) == [p |-> "int", n |-> n]

ObjFields == {"cookies", "origins", "url", "domain_key", "cookie_count", "origin_count"}

\* A JSON object with the keys of a storage_state
SessionObj(cookies, origins) ==
    [t |-> "obj",
     f |-> [k \in ObjFields |-> CASE k = "cookies" -> cookies
                                  [] k = "origins" -> origins
                                  [] OTHER -> FAbsent]]

\* A JSON value that is not an object (a list, a number, a string)
JNotObject == [t |-> "other"]

\* json.load(f) on an opened file
JsonLoad(content) ==
    CASE content.kind = "json" -> Ret(content.val)
      [] content.kind = "garbage" -> Raise("JSONDecodeError")
      [] OTHER -> Raise("FileNotFoundError")

\* json.dump(data, f, indent=2)
JsonDump(data) == JsonText(data, "indent2")

\* len(data.get(name, [])), for a JSON object data
LenOfGet(data, name) ==
    LET v == data.f[name]
    IN  CASE v.p = "absent" -> Ret(0)
          [] v.p = "list" -> Ret(Len(v.items))
          [] OTHER -> Raise("TypeError")

\* bool(data.get(name) or []): Python's truth value of what is stored
TruthyGet(data, name) ==
    LET v == data.f[name]
    IN  CASE v.p = "list" -> Len(v.items) > 0
          [] v.p = "str" -> Len(v.str) > 0
          [] v.p = "int" -> v.n # 0
          [] OTHER -> FALSE

(***************************************************************************)
(* The Session Store.                                                      *)
(***************************************************************************)

\* _session_path(domain_key): SESSIONS_DIR / f"{domain_key}.json"
SessionPath(key) == key \o <<".json">>

\* _meta_path(domain_key): SESSIONS_DIR / f"{domain_key}.meta.json"
MetaPath(key) == key \o <<".meta", ".json">>

\* path.exists()
Exists(fs, path) == fs[path].kind # "absent"

\* A plausible slip: cookie_count is taken from the origins.
SessionMetaCountsFromOrigins(url, key, ncookies, norigins) ==
    [t |-> "obj",
     f |-> [k \in ObjFields |-> CASE k = "url" -> FStr(url)
                                  [] k = "domain_key" -> FStr(key)
                                  [] k = "cookie_count" -> FInt(norigins)
                                  [] k = "origin_count" -> FInt(norigins)
                                  [] OTHER -> FAbsent]]

\* save_session lines 55-62: the metadata record (saved_at and saved_at_iso,
\* the time of the call, are left out)
SessionMeta(url, key, ncookies, norigins) ==
    [t |-> "obj",
     f |-> [k \in ObjFields |-> CASE k = "url" -> FStr(url)
                                  [] k = "domain_key" -> FStr(key)
                                  [] k = "cookie_count" -> FInt(ncookies)
                                  [] k = "origin_count" -> FInt(norigins)
                                  [] OTHER -> FAbsent]]

\* What the file system can do to a write: nothing, refuse to open the file
\* (it is left as it was), or fail after the file was opened for writing
\* (it is left cut off).
IoFaults == {"none", "blob_open", "blob_write", "meta_open", "meta_write"}

Outcome(fs, ret) == [files |-> fs, ret |-> ret]

\* A plausible slip: a save keeps the metadata that is already there.
save_session_keeps_metadata(fs, url, tmp, fault) ==
    IF UrlRaises(url) THEN Outcome(fs, Raise("ValueError"))
    ELSE
    LET key == DomainKey(url)
        loaded == JsonLoad(tmp)
        fs1 == [fs EXCEPT ![SessionPath(key)] = JsonDump(loaded.value)]
        fs2 == [fs1 EXCEPT ![MetaPath(key)] =
                   JsonDump(SessionMeta(url, key, LenOfGet(loaded.value, "cookies").value,
                                        LenOfGet(loaded.value, "origins").value))]
    IN  CASE loaded.raised -> Outcome(fs, loaded)
          [] fault # "none" -> Outcome(fs, Raise("OSError"))
          [] Exists(fs, MetaPath(key)) -> Outcome(fs1, Ret(key))
          [] OTHER -> Outcome(fs2, Ret(key))

\* save_session(url, storage_state_path), where tmp is the content of the
\* file at storage_state_path
save_session(fs, url, tmp, fault) ==
    IF UrlRaises(url) THEN Outcome(fs, Raise("ValueError"))
    ELSE
    LET key == DomainKey(url)
        loaded == JsonLoad(tmp)
        data == loaded.value
        fs1 == [fs EXCEPT ![SessionPath(key)] = JsonDump(data)]
        nc == LenOfGet(data, "cookies")
        no == LenOfGet(data, "origins")
        fs2 == [fs1 EXCEPT ![MetaPath(key)] = JsonDump(SessionMeta(url, key, nc.value, no.value))]
    IN  CASE loaded.raised -> Outcome(fs, loaded)
          [] fault = "blob_open" -> Outcome(fs, Raise("OSError"))
          [] fault = "blob_write" ->
                Outcome([fs EXCEPT ![SessionPath(key)] = Garbage], Raise("OSError"))
          [] data.t # "obj" -> Outcome(fs1, Raise("AttributeError"))
          [] nc.raised -> Outcome(fs1, nc)
          [] no.raised -> Outcome(fs1, no)
          [] fault = "meta_open" -> Outcome(fs1, Raise("OSError"))
          [] fault = "meta_write" ->
                Outcome([fs1 EXCEPT ![MetaPath(key)] = Garbage], Raise("OSError"))
          [] OTHER -> Outcome(fs2, Ret(key))

NotFound == [found |-> FALSE, path |-> <<>>]
Found(path) == [found |-> TRUE, path |-> path]

\* get_session_path(url)
get_session_path(fs, url) ==
    IF UrlRaises(url) THEN Raise("ValueError")
    ELSE LET path == SessionPath(DomainKey(url))
         IN  IF Exists(fs, path) THEN Ret(Found(path)) ELSE Ret(NotFound)

\* is_session_effective lines 83-90, given the path get_session_path found
EffectiveAt(fs, path) ==
    LET loaded == JsonLoad(fs[path])
        data == loaded.value
    IN  IF loaded.raised \/ data.t # "obj" THEN FALSE
        ELSE TruthyGet(data, "cookies") \/ TruthyGet(data, "origins")

\* is_session_effective(url)
is_session_effective(fs, url) ==
    LET p == get_session_path(fs, url)
    IN  CASE p.raised -> p
          [] ~p.value.found -> Ret(FALSE)
          [] OTHER -> Ret(EffectiveAt(fs, p.value.path))

\* path.exists() for any path of the sessions directory
ExistsIn(fs, path) == path \in DOMAIN fs /\ Exists(fs, path)

\* The order of the characters of file names (their code points; the
\* suffixes start with '.', which comes after '-' and before every other
\* character used).
CharRank(c) ==
    CASE c = "-" -> 0
      [] c = ".json" -> 1 [] c = ".meta" -> 2 [] c = "/" -> 3 [] c = ":" -> 4
      [] c = "?" -> 5 [] c = "B" -> 6 [] c = "[" -> 7 [] c = "_" -> 8
      [] c = "a" -> 9 [] OTHER -> 10

\* p < q for two file names, as sorted() compares them
RECURSIVE PathLess(_, _)
PathLess(p, q) ==
    CASE q = <<>> -> FALSE
      [] p = <<>> -> TRUE
      [] CharRank(Head(p)) # CharRank(Head(q)) -> CharRank(Head(p)) < CharRank(Head(q))
      [] OTHER -> PathLess(Tail(p), Tail(q))

\* sorted(paths)
RECURSIVE Sorted(_)
Sorted(paths) ==
    IF paths = {} THEN <<>>
    ELSE LET least == CHOOSE p \in paths : \A q \in paths \ {p} : PathLess(p, q)
         IN  <<least>> \o Sorted(paths \ {least})

\* SESSIONS_DIR.glob("*.meta.json"): the names that end in ".meta.json"
MetaFiles(fs) ==
    {p \in DOMAIN fs : /\ Exists(fs, p)
                       /\ Len(p) >= 2
                       /\ p[Len(p) - 1] = ".meta"
                       /\ p[Len(p)] = ".json"}

\* list_sessions lines 98-101 succeed on a file: it parses, and
\* meta["domain_key"] can be read
MetaReadable(content) ==
    /\ content.kind = "json"
    /\ content.val.t = "obj"
    /\ content.val.f["domain_key"].p # "absent"

\* The entry list_sessions appends for a readable metadata file
SessionEntry(fs, content) ==
    LET key == content.val.f["domain_key"]
    IN  [meta |-> content.val,
         session_file_exists |-> IF key.p = "str" THEN ExistsIn(fs, SessionPath(key.str))
                                 ELSE FALSE]

\* The loop of list_sessions over the sorted metadata files: an exception
\* skips the file
RECURSIVE CollectSessions(_, _)
CollectSessions(fs, paths) ==
    IF paths = <<>> THEN <<>>
    ELSE (IF MetaReadable(fs[Head(paths)]) THEN <<SessionEntry(fs, fs[Head(paths)])>> ELSE <<>>)
         \o CollectSessions(fs, Tail(paths))

\* A plausible slip: the loop ends at the first file that cannot be read.
list_sessions_until_corrupted(fs) ==
    LET paths == Sorted(MetaFiles(fs))
        bad == {i \in 1..Len(paths) : ~MetaReadable(fs[paths[i]])}
        n == IF bad = {} THEN Len(paths) ELSE (CHOOSE i \in bad : \A j \in bad : i <= j) - 1
    IN  CollectSessions(fs, SubSeq(paths, 1, n))

\* list_sessions()
list_sessions(fs) == CollectSessions(fs, Sorted(MetaFiles(fs)))

\* A plausible slip: only the session file is unlinked.
delete_session_blob_only(fs, url) ==
    IF UrlRaises(url) THEN Outcome(fs, Raise("ValueError"))
    ELSE LET sp == SessionPath(DomainKey(url))
         IN  Outcome([fs EXCEPT ![sp] = Absent], Ret(Exists(fs, sp)))

\* delete_session(url)
delete_session(fs, url) ==
    IF UrlRaises(url) THEN Outcome(fs, Raise("ValueError"))
    ELSE
    LET key == DomainKey(url)
        sp == SessionPath(key)
        mp == MetaPath(key)
        fs1 == IF Exists(fs, sp) THEN [fs EXCEPT ![sp] = Absent] ELSE fs
        fs2 == IF Exists(fs1, mp) THEN [fs1 EXCEPT ![mp] = Absent] ELSE fs1
    IN  Outcome(fs2, Ret(Exists(fs, sp) \/ Exists(fs1, mp)))

(***************************************************************************)
(* okta_get_cookies (server.py).                                           *)
(***************************************************************************)

\* The optional argument domain_filter: None, or a string
NoFilter == [given |-> FALSE, text |-> <<>>]
Filter(text) == [given |-> TRUE, text |-> text]

\* a in b, for two strings
IsSubstring(a, b) ==
    \E i \in 0..(Len(b) - Len(a)) : SubSeq(b, i + 1, i + Len(a)) = a

\* [c for c in cookies if domain_filter.lower() in c.get("domain", "").lower()]
RECURSIVE FilterCookies(_, _)
FilterCookies(cookies, domain_filter) ==
    IF cookies = <<>> THEN <<>>
    ELSE (IF IsSubstring(Lower(domain_filter), Lower(Head(cookies).domain))
          THEN <<Head(cookies)>> ELSE <<>>)
         \o FilterCookies(Tail(cookies), domain_filter)

\* The two records okta_get_cookies serialises
CookiesError(text, url) == [error |-> text, count |-> 0, cookies |-> <<>>, url |-> url]
CookiesFound(cookies, url) ==
    [error |-> None, count |-> Len(cookies), cookies |-> cookies, url |-> url]

\* okta_get_cookies(url, domain_filter); data.get, the comprehension and len
\* are outside the try of lines 188-195
get_cookies(fs, url, domain_filter) ==
    LET p == get_session_path(fs, url)
        loaded == JsonLoad(fs[p.value.path])
        data == loaded.value
        cookies == data.f["cookies"]
        filtering == domain_filter.given /\ domain_filter.text # <<>>
    IN  CASE p.raised -> p
          [] ~p.value.found -> Ret(CookiesError("No stored session found for this URL", url))
          [] loaded.raised -> Ret(CookiesError("Failed to read session file: {exc}", url))
          [] data.t # "obj" -> Raise("AttributeError")
          [] cookies.p = "absent" -> Ret(CookiesFound(<<>>, url))
          [] cookies.p # "list" -> Raise("TypeError")
          [] filtering -> Ret(CookiesFound(FilterCookies(cookies.items, domain_filter.text), url))
          [] OTHER -> Ret(CookiesFound(cookies.items, url))

(***************************************************************************)
(* SpecKey: _domain_key applied to two urls.                                *)
(***************************************************************************)

\* A url is a prefix (none: a relative url; "//"; a scheme and "//"), a host
\* part and a tail (a path, a query, both or neither).
UrlPrefixes == {<<>>, <<"/", "/">>, <<"a", ":", "/", "/">>}
UrlHosts == SeqsUpTo(HostChars, MaxHostLen) \cup {<<"[">>}
UrlTails == {<<>>, <<"/">>, <<"/", "a">>, <<"?", "a">>, <<"/", "B", "?", "a", "/">>}

KeyUrls == {p \o h \o t : p \in UrlPrefixes, h \in UrlHosts, t \in UrlTails}

KeyInit ==
    /\ kUrlA \in KeyUrls
    /\ kUrlB = <<>>
    /\ kRetA = Ret(<<>>)
    /\ kRetB = Ret(<<>>)
    /\ kpc = "a"
    /\ files = <<>>
    /\ sOp = [op |-> "none"]
    /\ sBefore = <<>>
    /\ CallVarsUnused /\ TasksUnused /\ CascadeUnused /\ LaunchUnused

\* _domain_key(kUrlA)
KeyDeriveA ==
    /\ kpc = "a"
    /\ kRetA' = DomainKeyCall(kUrlA)
    /\ kpc' = "b"
    /\ UNCHANGED <<kUrlA, kUrlB, kRetB>>
    /\ UNCHANGED <<storeVars, callVars, taskVars, cascadeVars, launchVars>>

\* _domain_key(u) for a second url u
KeyDeriveB ==
    /\ kpc = "b"
    /\ \E u \in KeyUrls :
          /\ kUrlB' = u
          /\ kRetB' = DomainKeyCall(u)
    /\ kpc' = "done"
    /\ UNCHANGED <<kUrlA, kRetA>>
    /\ UNCHANGED <<storeVars, callVars, taskVars, cascadeVars, launchVars>>

KeyNext == KeyDeriveA \/ KeyDeriveB

SpecKey == KeyInit /\ [][KeyNext]_vars


(***************************************************************************)
(* SpecStore: calls of the Session Store, one after the other, on one      *)
(* sessions directory.                                                     *)
(***************************************************************************)

\* Most cookies, and most origins, in a storage state handed to save_session.
MaxCookies == 2
MaxOrigins == 1

CookieDomains == << <<"B", "a">>, <<"a", "b">> >>

\* The domain_filter arguments: none, the empty string, a letter of both
\* domains, one domain in another letter case, and a string in neither
DomainFilters ==
    {NoFilter, Filter(<<>>), Filter(<<"b">>), Filter(<<"a", "B">>), Filter(<<"b", "b">>)}

\* The n-th cookie of a storage state; its domain alternates
Cookie(n) == [name |-> n, domain |-> CookieDomains[1 + (n % 2)]]
CookieList(n) == [i \in 1..n |-> Cookie(i)]
OriginList(n) == [i \in 1..n |-> [origin |-> i]]

\* The storage states: a list of up to MaxCookies cookies with no origins or
\* with MaxOrigins of them, and two states with a collection missing or null
\* (tests/test_session_store.py writes both keys, as lists).
SessionObjs ==
    {SessionObj(FList(CookieList(n)), FList(OriginList(m))) :
        n \in 0..MaxCookies, m \in {0, MaxOrigins}}
    \cup {SessionObj(FAbsent, FAbsent), SessionObj(FNull, FList(<<>>))}

\* What the file at storage_state_path may hold
TmpContents ==
    {Absent, Garbage, JsonText(JNotObject, "compact")}
    \cup {JsonText(o, "compact") : o \in SessionObjs}

\* Urls of the store's callers: two urls of one host, a host that ends in
\* ".meta", and a url urlparse rejects.
StoreUrls ==
    { <<"/", "/", "B", "/", "a">>,
      <<"a", ":", "/", "/", "b", "?", "a">>,
      <<"/", "/", "b", ".meta">>,
      <<"/", "/", "[">> }

StoreKeys == {DomainKey(u) : u \in {v \in StoreUrls : ~UrlRaises(v)}}
StorePaths == {SessionPath(k) : k \in StoreKeys} \cup {MetaPath(k) : k \in StoreKeys}

\* ensure_sessions_dir() on a fresh home: an empty directory
EmptyDir == [p \in StorePaths |-> Absent]

StoreInit ==
    /\ files = EmptyDir
    /\ sOp = [op |-> "none"]
    /\ sBefore = EmptyDir
    /\ kUrlA = <<>> /\ kUrlB = <<>> /\ kRetA = Ret(<<>>) /\ kRetB = Ret(<<>>) /\ kpc = "done"
    /\ CallVarsUnused /\ TasksUnused /\ CascadeUnused /\ LaunchUnused

\* The store is called when the caller holds no result of an earlier call.
StoreIdle == sOp.op = "none"

\* save_session(url, storage_state_path)
SaveSession ==
    /\ StoreIdle
    /\ \E url \in StoreUrls, tmp \in TmpContents, fault \in IoFaults :
        LET out == save_session(files, url, tmp, fault)
        IN  /\ files' = out.files
            /\ sOp' = [op |-> "save_session", url |-> url, tmp |-> tmp, ret |-> out.ret]
            /\ sBefore' = files
            /\ UNCHANGED <<keyVars, callVars, taskVars, cascadeVars, launchVars>>

\* delete_session(url)
DeleteSession ==
    /\ StoreIdle
    /\ \E url \in StoreUrls :
        LET out == delete_session(files, url)
        IN  /\ files' = out.files
            /\ sOp' = [op |-> "delete_session", url |-> url, ret |-> out.ret]
            /\ sBefore' = files
            /\ UNCHANGED <<keyVars, callVars, taskVars, cascadeVars, launchVars>>

\* get_session_path(url)
GetSessionPath ==
    /\ StoreIdle
    /\ \E url \in StoreUrls :
        /\ sOp' = [op |-> "get_session_path", url |-> url, ret |-> get_session_path(files, url)]
        /\ sBefore' = files
        /\ UNCHANGED <<files, keyVars, callVars, taskVars, cascadeVars, launchVars>>

\* is_session_effective(url)
IsSessionEffective ==
    /\ StoreIdle
    /\ \E url \in StoreUrls :
        /\ sOp' = [op |-> "is_session_effective", url |-> url,
                   ret |-> is_session_effective(files, url)]
        /\ sBefore' = files
        /\ UNCHANGED <<files, keyVars, callVars, taskVars, cascadeVars, launchVars>>

\* list_sessions()
ListSessions ==
    /\ StoreIdle
    /\ sOp' = [op |-> "list_sessions", ret |-> Ret(list_sessions(files))]
    /\ sBefore' = files
    /\ UNCHANGED <<files, keyVars, callVars, taskVars, cascadeVars, launchVars>>

\* okta_get_cookies(url, domain_filter)
GetCookies ==
    /\ StoreIdle
    /\ \E url \in StoreUrls, domain_filter \in DomainFilters :
        /\ sOp' = [op |-> "get_cookies", url |-> url, domain_filter |-> domain_filter,
                   ret |-> get_cookies(files, url, domain_filter)]
        /\ sBefore' = files
        /\ UNCHANGED <<files, keyVars, callVars, taskVars, cascadeVars, launchVars>>

\* test_is_session_effective_handles_bad_json: a broken file is written into
\* the sessions directory from outside the store
WriteBrokenFile ==
    /\ StoreIdle
    /\ \E path \in StorePaths : files' = [files EXCEPT ![path] = Garbage]
    /\ UNCHANGED <<sOp, sBefore, keyVars, callVars, taskVars, cascadeVars, launchVars>>

\* The call has returned (or raised) and its caller goes on: the next call
\* starts from the directory as it is now.
StoreReturn ==
    /\ ~StoreIdle
    /\ sOp' = [op |-> "none"]
    /\ sBefore' = EmptyDir
    /\ UNCHANGED <<files, keyVars, callVars, taskVars, cascadeVars, launchVars>>

StoreNext ==
    \/ SaveSession
    \/ DeleteSession
    \/ GetSessionPath
    \/ IsSessionEffective
    \/ ListSessions
    \/ GetCookies
    \/ WriteBrokenFile
    \/ StoreReturn

SpecStore == StoreInit /\ [][StoreNext]_vars

(***************************************************************************)
(* SpecList: list_sessions on a sessions directory in which sessions of    *)
(* some of three hosts were saved, one of them a prefix of another.        *)
(***************************************************************************)

\* Urls of the hosts a, a-b and b
ListUrls == << <<"/", "/", "a">>, <<"/", "/", "a", "-", "b">>, <<"/", "/", "b">> >>

ListPaths ==
    {SessionPath(DomainKey(ListUrls[i])) : i \in 1..Len(ListUrls)}
    \cup {MetaPath(DomainKey(ListUrls[i])) : i \in 1..Len(ListUrls)}

\* What was saved for a url: nothing (Absent), or a storage state
ListSaved ==
    {Absent} \cup {JsonText(SessionObj(FList(CookieList(n)), FList(<<>>)), "compact") :
                      n \in 0..MaxCookies}

\* The directory after save_session(ListUrls[i], saved[i]) for the urls from
\* the i-th on that have a saved state
RECURSIVE SavedFrom(_, _, _)
SavedFrom(fs, states, i) ==
    IF i > Len(ListUrls) THEN fs
    ELSE SavedFrom(IF states[i] = Absent THEN fs
                   ELSE save_session(fs, ListUrls[i], states[i], "none").files,
                   states, i + 1)

ListInit ==
    /\ \E states \in [1..Len(ListUrls) -> ListSaved] :
          files = SavedFrom([p \in ListPaths |-> Absent], states, 1)
    /\ sOp = [op |-> "none"] /\ sBefore = <<>>
    /\ kUrlA = <<>> /\ kUrlB = <<>> /\ kRetA = Ret(<<>>) /\ kRetB = Ret(<<>>) /\ kpc = "done"
    /\ CallVarsUnused /\ TasksUnused /\ CascadeUnused /\ LaunchUnused

ListNext == ListSessions

SpecList == ListInit /\ [][ListNext]_vars

(***************************************************************************)
(* The browser controller (browser/controller.py).                         *)
(***************************************************************************)

NoExc == [type |-> None, text |-> None]
IsExc(e) == e.type # None

\* What the browser driver raises: a timeout, or any other playwright Error.
DriverErrors ==
    { [type |-> "TimeoutError", text |-> "Timeout exceeded"],
      [type |-> "Error", text |-> "Target closed"] }

\* An exception of the store or of the standard library, as perform_login's
\* handler sees it
ExcOfRet(ret) == [type |-> ret.exc, text |-> ret.exc]

\* What one call can hold.
Released == [driver |-> FALSE, browser |-> FALSE, context |-> FALSE, tmp |-> FALSE]

\* The driver's answers during __aenter__: whether async_playwright starts,
\* whether the launch with the channel, the launch without it and new_context
\* succeed, and the error raised by the one that does not.
EnterAnswers ==
    [start : BOOLEAN, launchChannel : BOOLEAN, launchPlain : BOOLEAN,
     newContext : BOOLEAN, err : DriverErrors]

\* BrowserController._launch_regular: the launch, its retry without the
\* channel, and new_context
launch_regular(channel, ans) ==
    LET first == IF channel # None THEN ans.launchChannel ELSE ans.launchPlain
        retried == channel # None /\ ~first
        n == IF retried THEN 2 ELSE 1
        launched == first \/ (retried /\ ans.launchPlain)
    IN  CASE ~launched -> [browser |-> FALSE, context |-> FALSE, launches |-> n, exc |-> ans.err]
          [] ~ans.newContext ->
                [browser |-> TRUE, context |-> FALSE, launches |-> n, exc |-> ans.err]
          [] OTHER -> [browser |-> TRUE, context |-> TRUE, launches |-> n, exc |-> NoExc]

\* BrowserController.__aenter__ (user_data_dir is never set by the lifecycle
\* operations, so the launch is _launch_regular)
aenter(r, channel, ans) ==
    IF ~ans.start
    THEN [res |-> r, launches |-> 0, exc |-> ans.err]
    ELSE LET l == launch_regular(channel, ans)
         IN  [res |-> [r EXCEPT !.driver = TRUE, !.browser = l.browser, !.context = l.context],
              launches |-> l.launches,
              exc |-> l.exc]

\* Whether the driver raised during __aenter__, the launch that is retried
\* included
aenter_errors(channel, ans) ==
    \/ ~ans.start
    \/ IsExc(launch_regular(channel, ans).exc)
    \/ (channel # None /\ ~ans.launchChannel)

\* playwright_cm.__aexit__: the driver stops, and with it the browsers it
\* launched and their contexts
StopDriver(r) == [r EXCEPT !.driver = FALSE, !.browser = FALSE, !.context = FALSE]

\* BrowserController.__aexit__: context.close(), browser.close(), then, in
\* the finally, the driver; an error of a close skips what follows it in the try
aexit(r, closeContextOk, closeBrowserOk, err) ==
    LET r1 == IF r.context /\ closeContextOk THEN [r EXCEPT !.context = FALSE] ELSE r
        ctxFailed == r.context /\ ~closeContextOk
        r2 == IF ~ctxFailed /\ r1.browser /\ closeBrowserOk
              THEN [r1 EXCEPT !.browser = FALSE, !.context = FALSE] ELSE r1
        brFailed == ~ctxFailed /\ r1.browser /\ ~closeBrowserOk
    IN  [res |-> StopDriver(r2),
         exc |-> IF ctxFailed \/ brFailed THEN err ELSE NoExc]

(***************************************************************************)
(* Results of the lifecycle operations (auth/login.py).                    *)
(***************************************************************************)

NoKey == [some |-> FALSE, key |-> <<>>]
SomeKey(k) == [some |-> TRUE, key |-> k]

Message(head, e) == [head |-> head, type |-> e.type, text |-> e.text]

\* perform_login's three return statements
LoginSaved(url, key) ==
    [kind |-> "returned", success |-> TRUE, domain_key |-> SomeKey(key),
     message |-> Message("Session saved for {domain_key}", NoExc), url |-> url]
LoginFailed(url) ==
    [kind |-> "returned", success |-> FALSE, domain_key |-> NoKey,
     message |-> Message("Auto-login failed", NoExc), url |-> url]
LoginError(url, e) ==
    [kind |-> "returned", success |-> FALSE, domain_key |-> NoKey,
     message |-> Message("Login error: {type}: {exc}", e), url |-> url]

\* A plausible slip: the handler catches timeouts only.
LoginHandlerTimeoutsOnly(url, e) ==
    IF e.type = "TimeoutError" THEN LoginError(url, e)
    ELSE [kind |-> "raised", exc |-> e]

\* perform_login lines 284-290: except Exception
LoginHandler(url, e) == LoginError(url, e)

\* A plausible slip: without a stored session the probe's negative answer
\* is returned.
VerifyNoSessionAsExpired(url) ==
    [kind |-> "returned", valid |-> FALSE, domain_key |-> SomeKey(DomainKey(url)),
     message |-> Message("Session expired or invalid", NoExc), url |-> url]

\* verify_session's three return statements
VerifyNoSession(url) ==
    [kind |-> "returned", valid |-> FALSE, domain_key |-> NoKey,
     message |-> Message("No stored session found for this URL", NoExc), url |-> url]
VerifyProbedAsActive(url, active) ==
    [kind |-> "returned", valid |-> TRUE, domain_key |-> SomeKey(DomainKey(url)),
     message |-> Message("Session is active", NoExc), url |-> url]
VerifyProbed(url, active) ==
    [kind |-> "returned", valid |-> active, domain_key |-> SomeKey(DomainKey(url)),
     message |-> Message(IF active THEN "Session is active" ELSE "Session expired or invalid",
                         NoExc),
     url |-> url]
VerifyError(url, e) ==
    [kind |-> "returned", valid |-> FALSE, domain_key |-> SomeKey(DomainKey(url)),
     message |-> Message("Session check error: {type}: {exc}", e), url |-> url]

\* verify_session lines 341-347: except Exception
VerifyHandler(url, e) == VerifyError(url, e)

NoResult == [kind |-> "none"]
Raised(e) == [kind |-> "raised", exc |-> e]

(***************************************************************************)
(* The login heuristics engine (auth/login.py, browser/helpers.py).        *)
(***************************************************************************)

\* Selectors tried by one cascade (the banks of login.py hold 4 to 17).
MaxSelectors == 2

\* range(10) of the completion poll
PollTicks == 10

\* What one candidate of a cascade does: it is not visible, the visibility
\* probe raises, it is visible and the fill or click raises, or it is
\* visible and the fill or click succeeds.
CandidateAnswers == {"hidden", "probe_error", "action_error", "ok"}
CascadeAnswers == [1..MaxSelectors -> CandidateAnswers]

\* fill_first_match / click_first_match: the candidate acted on (0: none);
\* every error is swallowed and the next selector is tried
first_match(outs) == FindFrom(outs, {"ok"}, 1)

\* Hosts a page can be on, and the test 'okta' in host
PageHosts == {"company.okta.com", "portal.example.com"}
HasOkta(host) == host = "company.okta.com"

\* is_visible on the login fields: True, False, or an error
ProbeAnswers == {"visible", "hidden", "error"}

\* A plausible slip: the probe returns visible instead of not visible.
is_on_portal_inverted(host, probe) ==
    IF HasOkta(host) THEN FALSE ELSE probe # "hidden"

\* _is_on_portal(page)
is_on_portal(host, probe) ==
    IF HasOkta(host) THEN FALSE ELSE probe # "visible"

\* Whether the probe's is_visible was called and raised
probe_errors(host, probe) == ~HasOkta(host) /\ probe = "error"

\* Whether a candidate the cascade tried raised
cascade_errors(outs) ==
    \E i \in 1..Len(outs) :
        /\ outs[i] \in {"probe_error", "action_error"}
        /\ (first_match(outs) = 0 \/ i < first_match(outs))

\* The authenticated signal: the host is not under the identity provider and
\* no login field is visible.
Authenticated(host, probe) == ~HasOkta(host) /\ probe = "hidden"

\* A plausible slip: only the username is required.
has_credentials_username_only(username, password) == username \notin {None, ""}

\* auto_login line 126: creds.username and creds.password
has_credentials(username, password) ==
    username \notin {None, ""} /\ password \notin {None, ""}

\* gen_totp(secret): the current 6-digit code; pyotp raises for a seed that is
\* not base32
OtpCode == <<"4", "9", "2", "0", "3", "9">>
TotpSeeds == {None, "JBSWY3DPEHPK3PXP", "not-base32"}
gen_totp_raises(secret) == secret = "not-base32"
TotpError == [type |-> "binascii.Error", text |-> "Non-base32 digit found"]

\* One fill or click on the page.
Fill(target, idx, value) == [act |-> "fill", target |-> target, idx |-> idx, value |-> value]
Click(target) == [act |-> "click", target |-> target, idx |-> 0, value |-> None]

\* The log after a cascade: one entry when a candidate was acted on
Logged(lg, outs, entry) == IF first_match(outs) > 0 THEN Append(lg, entry) ELSE lg

\* A step of auto_login and whether it found a candidate to act on
Step(name, ok) == [step |-> name, ok |-> ok]

\* A plausible slip: the two-step flow is entered whenever the password could
\* not be filled.
password_branch_ignoring_user(user_ok, pass_ok) ==
    IF ~pass_ok THEN "click_next" ELSE IF user_ok THEN "click_submit" ELSE "return False"

\* lines 154-176: the branch taken after the two fills
password_branch(user_ok, pass_ok) ==
    CASE user_ok /\ ~pass_ok -> "click_next"
      [] user_ok /\ pass_ok -> "click_submit"
      [] OTHER -> "return False"

\* A plausible slip: Submit is clicked whether or not the password was filled
\* on the second page.
second_page_branch_always_submit(pass_ok) == "click_submit"

\* lines 166-171: the branch taken after the fill on the second page
second_page_branch(pass_ok) == IF pass_ok THEN "click_submit" ELSE "return False"

\* A plausible slip: every box found receives a digit.
BoxFillsEveryBox(count, failAt) ==
    IF count >= 6
    THEN [i \in 1..(IF failAt = 0 THEN count ELSE failAt - 1) |->
             Fill("digit box", i - 1, OtpCode[((i - 1) % Len(OtpCode)) + 1])]
    ELSE <<>>

\* login.py lines 193-200: boxes.count(), which raises for count = -1, and the
\* fills of otp[:count]; the failAt-th fill raises (0: none does)
BoxCounts == {-1, 0, 5, 6, 7}
BoxFills(count, failAt) ==
    LET n == IF Len(OtpCode) < count THEN Len(OtpCode) ELSE count
        done == IF failAt = 0 \/ failAt > n THEN n ELSE failAt - 1
    IN  IF count >= 6 THEN [i \in 1..done |-> Fill("digit box", i - 1, OtpCode[i])] ELSE <<>>
BoxesOk(count, failAt) ==
    LET n == IF Len(OtpCode) < count THEN Len(OtpCode) ELSE count
    IN  count >= 6 /\ (failAt = 0 \/ failAt > n)
BoxesRaise(count, failAt) == count = -1 \/ (count >= 6 /\ ~BoxesOk(count, failAt))

(***************************************************************************)
(* Spec: perform_login and verify_session, one call at a time.             *)
(***************************************************************************)

\* Urls of the callers: one with a host and a path, and one urlparse rejects.
LoginUrls == { <<"/", "/", "B", "/", "a">>, <<"/", "/", "[">> }
LoginKeys == {DomainKey(u) : u \in {v \in LoginUrls : ~UrlRaises(v)}}
LoginPaths == {SessionPath(k) : k \in LoginKeys} \cup {MetaPath(k) : k \in LoginKeys}

CredValues == {None, "", "user"}

\* context.storage_state(path=tmp_path) writes the context's cookies and origins
ExportObjs == {SessionObj(FList(CookieList(MaxCookies)), FList(OriginList(MaxOrigins)))}

\* The locals of a call: auto_login's flags and loop counter, the temporary
\* file's content, config.storage_state and the state the context was created
\* with, the number of _is_on_portal calls and the value of the last one, the
\* steps of auto_login taken so far with their outcomes, boxes.count() (-1
\* before it returned), the host seen by the check of line 217, and whether
\* the authenticated signal held on the page auto_login was given
NoLocals ==
    [user_ok |-> FALSE, pass_ok |-> FALSE, otp_ok |-> FALSE, tick |-> 0, tmp |-> Absent,
     storage_state |-> NotFound, preloaded |-> NotFound, probes |-> 0, active |-> FALSE,
     steps |-> <<>>, count |-> -1, final_host |-> None, entry |-> None]
NoCall == [op |-> "none", url |-> <<>>, username |-> None, password |-> None,
           totp_secret |-> None]

Init ==
    /\ files = [p \in LoginPaths |-> Absent]
    /\ snap = [p \in LoginPaths |-> Absent]
    /\ pc = "idle" /\ call = NoCall /\ res = Released /\ launches = 0
    /\ signalSeen = FALSE /\ log = <<>> /\ loc = NoLocals
    /\ exc = NoExc /\ pending = NoResult /\ result = NoResult
    /\ deleted = {} /\ driverErr = FALSE
    /\ sOp = [op |-> "none"] /\ sBefore = <<>>
    /\ kUrlA = <<>> /\ kUrlB = <<>> /\ kRetA = Ret(<<>>) /\ kRetB = Ret(<<>>) /\ kpc = "done"
    /\ TasksUnused /\ CascadeUnused /\ LaunchUnused

otherVars == <<keyVars, sOp, sBefore, taskVars, cascadeVars, launchVars>>

\* perform_login lines 225-259: the credentials, the configuration and the
\* temporary file (empty until the export)
PerformLogin ==
    /\ pc = "idle"
    /\ \E url \in LoginUrls, username \in CredValues, password \in CredValues,
          totp \in TotpSeeds :
          call' = [op |-> "perform_login", url |-> url, username |-> username,
                   password |-> password, totp_secret |-> totp]
    /\ res' = [Released EXCEPT !.tmp = TRUE]
    /\ loc' = [NoLocals EXCEPT !.tmp = Garbage]
    /\ snap' = files
    /\ pc' = "enter"
    /\ UNCHANGED <<files, launches, signalSeen, log, exc, pending, result, deleted, driverErr,
                   otherVars>>

\* verify_session lines 299-328: without a stored session it returns at once
VerifySession ==
    /\ pc = "idle"
    /\ \E url \in LoginUrls :
          LET p == get_session_path(files, url)
          IN  /\ call' = [NoCall EXCEPT !.op = "verify_session", !.url = url]
              /\ result' = CASE p.raised -> Raised(ExcOfRet(p))
                             [] ~p.value.found -> VerifyNoSession(url)
                             [] OTHER -> NoResult
              /\ pc' = IF p.raised \/ ~p.value.found THEN "done" ELSE "enter"
              /\ loc' = IF p.raised \/ ~p.value.found THEN NoLocals
                        ELSE [NoLocals EXCEPT !.storage_state = p.value]
    /\ snap' = files
    /\ UNCHANGED <<files, res, launches, signalSeen, log, exc, pending, deleted, driverErr,
                   otherVars>>

\* okta_delete_session between two lifecycle calls
DeleteTool ==
    /\ pc = "idle"
    /\ \E url \in LoginUrls :
          LET out == delete_session(files, url)
          IN  /\ files' = out.files
              /\ snap' = out.files
              /\ deleted' = IF ~out.ret.raised /\ out.ret.value
                            THEN deleted \cup {DomainKey(url)} ELSE deleted
    /\ UNCHANGED <<pc, call, res, launches, signalSeen, log, loc, exc, pending, result, driverErr,
                   otherVars>>

\* async with BrowserController(config): __aenter__; the channel is "chrome"
\* when is_browser_channel_available("chrome") (lines 240-242, 318-320)
ControllerEnter ==
    /\ pc = "enter"
    /\ \E channel \in {None, "chrome"}, ans \in EnterAnswers :
          LET e == aenter(res, channel, ans)
          IN  /\ res' = e.res
              /\ launches' = e.launches
              /\ exc' = e.exc
              /\ driverErr' = (driverErr \/ aenter_errors(channel, ans))
              /\ loc' = [loc EXCEPT !.preloaded = IF e.res.context THEN loc.storage_state
                                                  ELSE NotFound]
              /\ pc' = IF IsExc(e.exc) THEN "handler" ELSE "new_page"
    /\ UNCHANGED <<files, call, signalSeen, log, snap, pending, result, deleted, otherVars>>

\* The body's exception leaves the async with block through __aexit__
BodyRaises(e) ==
    /\ exc' = e
    /\ pc' = "aexit"

\* page = await controller.context.new_page()
NewPage ==
    /\ pc = "new_page"
    /\ \/ pc' = "goto" /\ UNCHANGED <<exc, driverErr>>
       \/ \E e \in DriverErrors : BodyRaises(e) /\ driverErr' = TRUE
    /\ UNCHANGED <<files, call, res, launches, signalSeen, log, snap, loc, pending, result,
                   deleted, otherVars>>

\* await page.goto(url, timeout=timeout_ms); the browser does not navigate to
\* a url with a malformed host
Goto ==
    /\ pc = "goto"
    /\ \/ /\ ~UrlRaises(call.url)
          /\ pc' = IF call.op = "perform_login" THEN "auto_login" ELSE "probe"
          /\ UNCHANGED <<exc, driverErr>>
       \/ \E e \in DriverErrors : BodyRaises(e) /\ driverErr' = TRUE
    /\ UNCHANGED <<files, call, res, launches, signalSeen, log, snap, loc, pending, result,
                   deleted, otherVars>>

\* verify_session lines 334-340: one evaluation of _is_on_portal
VerifyProbe ==
    /\ pc = "probe"
    /\ \E host \in PageHosts, probe \in ProbeAnswers :
          /\ signalSeen' = (signalSeen \/ Authenticated(host, probe))
          /\ driverErr' = (driverErr \/ probe_errors(host, probe))
          /\ loc' = [loc EXCEPT !.probes = @ + 1, !.active = is_on_portal(host, probe)]
          /\ pending' = VerifyProbed(call.url, is_on_portal(host, probe))
    /\ pc' = "aexit"
    /\ UNCHANGED <<files, call, res, launches, log, snap, exc, result, deleted, otherVars>>

\* BrowserController.__aexit__ as the block is left: by a return (pending),
\* or by an exception (exc); an error of a close replaces either
ControllerExit ==
    /\ pc = "aexit"
    /\ \E closeContextOk \in BOOLEAN, closeBrowserOk \in BOOLEAN, err \in DriverErrors :
          LET x == aexit(res, closeContextOk, closeBrowserOk, err)
          IN  /\ res' = x.res
              /\ exc' = IF IsExc(x.exc) THEN x.exc ELSE exc
              /\ pending' = IF IsExc(x.exc) THEN NoResult ELSE pending
              /\ driverErr' = (driverErr \/ IsExc(x.exc))
    /\ pc' = "handler"
    /\ UNCHANGED <<files, call, launches, signalSeen, log, snap, loc, result, deleted, otherVars>>

\* perform_login lines 284-296 / verify_session lines 341-347: the handler
\* and, in perform_login, the finally that unlinks the temporary file
Finish ==
    /\ pc = "handler"
    /\ result' = CASE ~IsExc(exc) -> pending
                   [] call.op = "perform_login" -> LoginHandler(call.url, exc)
                   [] OTHER -> VerifyHandler(call.url, exc)
    /\ res' = IF call.op = "perform_login" THEN [res EXCEPT !.tmp = FALSE] ELSE res
    /\ pc' = "done"
    /\ UNCHANGED <<files, call, launches, signalSeen, log, snap, loc, exc, pending, deleted,
                   driverErr, otherVars>>

\* The caller has the result; the next call starts afresh
Return ==
    /\ pc = "done"
    /\ pc' = "idle" /\ call' = NoCall /\ res' = Released /\ launches' = 0
    /\ signalSeen' = FALSE /\ log' = <<>> /\ loc' = NoLocals
    /\ exc' = NoExc /\ pending' = NoResult /\ result' = NoResult
    /\ snap' = files /\ driverErr' = FALSE
    /\ UNCHANGED <<files, deleted, otherVars>>

\* auto_login returns: False to the failure record, True to the export
ReturnFalse ==
    /\ pending' = LoginFailed(call.url)
    /\ pc' = "aexit"
ReturnTrue ==
    /\ pc' = "export"
    /\ UNCHANGED pending

storeFrame == <<files, snap, deleted, otherVars>>

\* The page auto_login is given: the authenticated signal holds on it or not
EntryPage(host, probe) == IF Authenticated(host, probe) THEN "authenticated" ELSE "login"

\* A plausible slip: the result of the probe of line 139 is not looked at.
entry_branch_always_fills(active) == "fill_username"

\* lines 139-141: if await _is_on_portal(page): return True
entry_branch(active) == IF active THEN "return True" ELSE "fill_username"

\* auto_login lines 126-141: the credentials, the wait for the page to load
\* (its error is swallowed) and the probe for an existing login
AutoLoginEntry ==
    /\ pc = "auto_login"
    /\ \E loaded \in BOOLEAN, host \in PageHosts, probe \in ProbeAnswers :
          IF ~has_credentials(call.username, call.password)
          THEN /\ ReturnFalse
               /\ loc' = [loc EXCEPT !.entry = EntryPage(host, probe)]
               /\ UNCHANGED <<signalSeen, driverErr>>
          ELSE /\ signalSeen' = (signalSeen \/ Authenticated(host, probe))
               /\ loc' = [loc EXCEPT !.probes = @ + 1, !.active = is_on_portal(host, probe),
                                     !.entry = EntryPage(host, probe)]
               /\ driverErr' = (driverErr \/ ~loaded \/ probe_errors(host, probe))
               /\ IF entry_branch(is_on_portal(host, probe)) = "return True" THEN ReturnTrue
                  ELSE pc' = "fill_username" /\ UNCHANGED pending
    /\ UNCHANGED <<call, res, launches, log, exc, result, storeFrame>>

\* line 145: fill_first_match(page, USERNAME_SELECTORS, creds.username)
FillUsername ==
    /\ pc = "fill_username"
    /\ \E outs \in CascadeAnswers :
          /\ loc' = [loc EXCEPT !.user_ok = first_match(outs) > 0,
                                !.steps = Append(@, Step("username", first_match(outs) > 0))]
          /\ log' = Logged(log, outs, Fill("username", 0, call.username))
          /\ driverErr' = (driverErr \/ cascade_errors(outs))
    /\ pc' = "fill_password"
    /\ UNCHANGED <<call, res, launches, signalSeen, exc, pending, result, storeFrame>>

\* lines 151-176: the password, and which of the three branches is taken
FillPassword ==
    /\ pc = "fill_password"
    /\ \E outs \in CascadeAnswers :
          LET pass_ok == first_match(outs) > 0
              branch == password_branch(loc.user_ok, pass_ok)
          IN  /\ loc' = [loc EXCEPT !.pass_ok = pass_ok,
                                    !.steps = Append(@, Step("password", pass_ok))]
              /\ log' = Logged(log, outs, Fill("password", 0, call.password))
              /\ driverErr' = (driverErr \/ cascade_errors(outs))
              /\ IF branch = "return False" THEN ReturnFalse
                 ELSE pc' = branch /\ UNCHANGED pending
    /\ UNCHANGED <<call, res, launches, signalSeen, exc, result, storeFrame>>

\* lines 156-164: click Next (its result is not looked at) and wait for the
\* password field (the wait's error is swallowed)
ClickNext ==
    /\ pc = "click_next"
    /\ \E outs \in CascadeAnswers, waited \in BOOLEAN :
          /\ log' = Logged(log, outs, Click("next"))
          /\ loc' = [loc EXCEPT !.steps = Append(@, Step("next", first_match(outs) > 0))]
          /\ driverErr' = (driverErr \/ cascade_errors(outs) \/ ~waited)
    /\ pc' = "fill_password_2"
    /\ UNCHANGED <<call, res, launches, signalSeen, exc, pending, result, storeFrame>>

\* lines 166-171: the password on the second page
FillPassword2 ==
    /\ pc = "fill_password_2"
    /\ \E outs \in CascadeAnswers :
          LET pass_ok == first_match(outs) > 0
              branch == second_page_branch(pass_ok)
          IN  /\ loc' = [loc EXCEPT !.pass_ok = pass_ok,
                                    !.steps = Append(@, Step("password, second page", pass_ok))]
              /\ log' = Logged(log, outs, Fill("password", 0, call.password))
              /\ driverErr' = (driverErr \/ cascade_errors(outs))
              /\ IF branch = "return False" THEN ReturnFalse
                 ELSE pc' = branch /\ UNCHANGED pending
    /\ UNCHANGED <<call, res, launches, signalSeen, exc, result, storeFrame>>

\* lines 168, 173, 181: click Submit (its result is not looked at)
ClickSubmit ==
    /\ pc = "click_submit"
    /\ \E outs \in CascadeAnswers :
          /\ log' = Logged(log, outs, Click("submit"))
          /\ loc' = [loc EXCEPT !.steps = Append(@, Step("submit", first_match(outs) > 0))]
          /\ driverErr' = (driverErr \/ cascade_errors(outs))
    /\ pc' = IF call.totp_secret \notin {None, ""} THEN "mfa_switch" ELSE "poll"
    /\ UNCHANGED <<call, res, launches, signalSeen, exc, pending, result, storeFrame>>

\* lines 183-185: maybe_switch_to_code_factor, then gen_totp, whose error
\* leaves auto_login
MfaSwitch ==
    /\ pc = "mfa_switch"
    /\ \E outs \in CascadeAnswers :
          /\ log' = Logged(log, outs, Click("code factor"))
          /\ loc' = [loc EXCEPT !.steps = Append(@, Step("code factor", first_match(outs) > 0))]
          /\ driverErr' = (driverErr \/ cascade_errors(outs))
    /\ IF gen_totp_raises(call.totp_secret) THEN BodyRaises(TotpError)
       ELSE pc' = "fill_otp" /\ UNCHANGED exc
    /\ UNCHANGED <<call, res, launches, signalSeen, pending, result, storeFrame>>

\* lines 202-207: the branch taken after the code field and the digit boxes
otp_branch(otp_ok) == IF otp_ok THEN "mfa_submit" ELSE "return False"

\* line 188: fill_first_match(page, OTP_SELECTORS, otp)
FillOtp ==
    /\ pc = "fill_otp"
    /\ \E outs \in CascadeAnswers :
          /\ loc' = [loc EXCEPT !.otp_ok = first_match(outs) > 0,
                                !.steps = Append(@, Step("otp", first_match(outs) > 0))]
          /\ log' = Logged(log, outs, Fill("otp", 0, "492039"))
          /\ driverErr' = (driverErr \/ cascade_errors(outs))
          /\ pc' = IF first_match(outs) > 0 THEN "mfa_submit" ELSE "digit_boxes"
    /\ UNCHANGED <<call, res, launches, signalSeen, exc, pending, result, storeFrame>>

\* lines 191-207: the digit boxes; without them auto_login returns False
DigitBoxes ==
    /\ pc = "digit_boxes"
    /\ \E count \in BoxCounts, failAt \in 0..Len(OtpCode) :
          /\ loc' = [loc EXCEPT !.otp_ok = BoxesOk(count, failAt), !.count = count,
                                !.steps = Append(@, Step("digit boxes", BoxesOk(count, failAt)))]
          /\ log' = log \o BoxFills(count, failAt)
          /\ driverErr' = (driverErr \/ BoxesRaise(count, failAt))
          /\ IF otp_branch(BoxesOk(count, failAt)) = "return False" THEN ReturnFalse
             ELSE pc' = otp_branch(BoxesOk(count, failAt)) /\ UNCHANGED pending
    /\ UNCHANGED <<call, res, launches, signalSeen, exc, result, storeFrame>>

\* line 203: click_first_match(page, MFA_SUBMIT_SELECTORS)
MfaSubmit ==
    /\ pc = "mfa_submit"
    /\ \E outs \in CascadeAnswers :
          /\ log' = Logged(log, outs, Click("mfa submit"))
          /\ loc' = [loc EXCEPT !.steps = Append(@, Step("mfa submit", first_match(outs) > 0))]
          /\ driverErr' = (driverErr \/ cascade_errors(outs))
    /\ pc' = "poll"
    /\ UNCHANGED <<call, res, launches, signalSeen, exc, pending, result, storeFrame>>

\* lines 211-215: one tick of the completion poll
Poll ==
    /\ pc = "poll"
    /\ loc.tick < PollTicks
    /\ \E host \in PageHosts, probe \in ProbeAnswers :
          /\ signalSeen' = (signalSeen \/ Authenticated(host, probe))
          /\ driverErr' = (driverErr \/ probe_errors(host, probe))
          /\ IF is_on_portal(host, probe)
             THEN /\ ReturnTrue
                  /\ loc' = [loc EXCEPT !.probes = @ + 1, !.active = TRUE]
             ELSE /\ loc' = [loc EXCEPT !.tick = @ + 1, !.probes = @ + 1, !.active = FALSE]
                  /\ UNCHANGED <<pc, pending>>
    /\ UNCHANGED <<call, res, launches, log, exc, result, storeFrame>>

\* A plausible slip: while the page is on the identity provider's host the
\* poll starts over.
PollEndStartsOver ==
    /\ pc = "poll"
    /\ loc.tick = PollTicks
    /\ \E host \in PageHosts :
          IF HasOkta(host)
          THEN loc' = [loc EXCEPT !.tick = 0, !.probes = 1] /\ UNCHANGED <<pc, pending>>
          ELSE loc' = [loc EXCEPT !.final_host = host] /\ ReturnTrue
    /\ UNCHANGED <<call, res, launches, signalSeen, log, exc, result, driverErr, storeFrame>>

\* lines 217-222: after the last tick only the host is looked at
PollEnd ==
    /\ pc = "poll"
    /\ loc.tick = PollTicks
    /\ \E host \in PageHosts :
          /\ loc' = [loc EXCEPT !.final_host = host]
          /\ IF HasOkta(host) THEN ReturnFalse ELSE ReturnTrue
    /\ UNCHANGED <<call, res, launches, signalSeen, log, exc, result, driverErr, storeFrame>>

\* perform_login line 269: context.storage_state(path=tmp_path)
Export ==
    /\ pc = "export"
    /\ \/ /\ \E obj \in ExportObjs : loc' = [loc EXCEPT !.tmp = JsonText(obj, "compact")]
          /\ pc' = "save"
          /\ UNCHANGED <<exc, driverErr>>
       \/ /\ \E e \in DriverErrors : BodyRaises(e)
          /\ driverErr' = TRUE
          /\ UNCHANGED loc
    /\ UNCHANGED <<call, res, launches, signalSeen, log, pending, result, storeFrame>>

\* perform_login lines 270-276: save_session and the success record
Save ==
    /\ pc = "save"
    /\ \E fault \in IoFaults :
          LET out == save_session(files, call.url, loc.tmp, fault)
          IN  /\ files' = out.files
              /\ IF out.ret.raised
                 THEN BodyRaises(ExcOfRet(out.ret)) /\ UNCHANGED <<pending, deleted>>
                 ELSE /\ pending' = LoginSaved(call.url, out.ret.value)
                      /\ deleted' = deleted \ {out.ret.value}
                      /\ pc' = "aexit"
                      /\ UNCHANGED exc
    /\ UNCHANGED <<call, res, launches, signalSeen, log, snap, loc, result, driverErr, otherVars>>

Next ==
    \/ PerformLogin \/ VerifySession \/ DeleteTool
    \/ ControllerEnter \/ NewPage \/ Goto \/ VerifyProbe
    \/ AutoLoginEntry \/ FillUsername \/ FillPassword \/ ClickNext \/ FillPassword2
    \/ ClickSubmit \/ MfaSwitch \/ FillOtp \/ DigitBoxes \/ MfaSubmit
    \/ Poll \/ PollEnd \/ Export \/ Save
    \/ ControllerExit \/ Finish \/ Return

Spec == Init /\ [][Next]_vars

\* SpecLive: one perform_login call on an empty sessions directory, from the
\* entry of the async with block.  Every await of the call comes back (each
\* driver wait returns or raises within its timeout, each sleep ends), so a
\* call that can take a step takes one.
LiveCalls ==
    {[op |-> "perform_login", url |-> <<"/", "/", "B", "/", "a">>, username |-> "user",
      password |-> password, totp_secret |-> totp] :
        password \in {"", "user"}, totp \in TotpSeeds}

LiveInit ==
    /\ files = [p \in LoginPaths |-> Absent]
    /\ snap = [p \in LoginPaths |-> Absent]
    /\ call \in LiveCalls
    /\ pc = "enter" /\ res = [Released EXCEPT !.tmp = TRUE] /\ launches = 0
    /\ signalSeen = FALSE /\ log = <<>> /\ loc = [NoLocals EXCEPT !.tmp = Garbage]
    /\ exc = NoExc /\ pending = NoResult /\ result = NoResult
    /\ deleted = {} /\ driverErr = FALSE
    /\ sOp = [op |-> "none"] /\ sBefore = <<>>
    /\ kUrlA = <<>> /\ kUrlB = <<>> /\ kRetA = Ret(<<>>) /\ kRetB = Ret(<<>>) /\ kpc = "done"
    /\ TasksUnused /\ CascadeUnused /\ LaunchUnused

LiveNext ==
    \/ ControllerEnter \/ NewPage \/ Goto
    \/ AutoLoginEntry \/ FillUsername \/ FillPassword \/ ClickNext \/ FillPassword2
    \/ ClickSubmit \/ MfaSwitch \/ FillOtp \/ DigitBoxes \/ MfaSubmit
    \/ Poll \/ PollEnd \/ Export \/ Save
    \/ ControllerExit \/ Finish

SpecLive == LiveInit /\ [][LiveNext]_vars /\ WF_vars(LiveNext)

(***************************************************************************)
(* SpecTasks: two perform_login tasks on the server's event loop, for two  *)
(* urls of one domain key.  A task can be suspended at each await; the     *)
(* code between two awaits runs without interruption, and save_session     *)
(* contains no await.                                                      *)
(***************************************************************************)

Tasks == {1, 2}

\* The url of each task: two urls with the key "b"
TaskUrl == <<(<<"/", "/", "B", "/", "a">>), (<<"a", ":", "/", "/", "b", "?", "a">>)>>

TaskPaths == {SessionPath(DomainKey(TaskUrl[t])) : t \in Tasks}
             \cup {MetaPath(DomainKey(TaskUrl[t])) : t \in Tasks}

\* What a task's context exports: up to MaxCookies cookies, without origins
\* or with MaxOrigins of them
TaskExports ==
    {SessionObj(FList(CookieList(n)), FList(OriginList(m))) :
        n \in 0..MaxCookies, m \in {0, MaxOrigins}}

TasksInit ==
    /\ files = [p \in TaskPaths |-> Absent]
    /\ tpc = [t \in Tasks |-> "auto_login"]
    /\ tmpOf = [t \in Tasks |-> Garbage]
    /\ saved = <<>>
    /\ sOp = [op |-> "none"] /\ sBefore = <<>>
    /\ kUrlA = <<>> /\ kUrlB = <<>> /\ kRetA = Ret(<<>>) /\ kRetB = Ret(<<>>) /\ kpc = "done"
    /\ CallVarsUnused /\ CascadeUnused /\ LaunchUnused

tasksFrame == <<keyVars, sOp, sBefore, callVars, cascadeVars, launchVars>>

\* perform_login line 266: await auto_login(page, creds) comes back
TaskAutoLogin(t) ==
    /\ tpc[t] = "auto_login"
    /\ \E success \in BOOLEAN :
          tpc' = [tpc EXCEPT ![t] = IF success THEN "export" ELSE "returned"]
    /\ UNCHANGED <<files, tmpOf, saved, tasksFrame>>

\* line 269: await controller.context.storage_state(path=tmp_path) comes back
TaskExport(t) ==
    /\ tpc[t] = "export"
    /\ \/ /\ \E obj \in TaskExports : tmpOf' = [tmpOf EXCEPT ![t] = JsonText(obj, "compact")]
          /\ tpc' = [tpc EXCEPT ![t] = "save"]
       \/ /\ tpc' = [tpc EXCEPT ![t] = "returned"]
          /\ UNCHANGED tmpOf
    /\ UNCHANGED <<files, saved, tasksFrame>>

\* lines 270-276: save_session(url, tmp_path), called right after the export
\* came back, and the return
TaskSave(t) ==
    /\ tpc[t] = "save"
    /\ \E fault \in IoFaults :
          LET out == save_session(files, TaskUrl[t], tmpOf[t], fault)
          IN  /\ files' = out.files
              /\ saved' = IF out.ret.raised THEN saved ELSE Append(saved, t)
    /\ tpc' = [tpc EXCEPT ![t] = "returned"]
    /\ UNCHANGED <<tmpOf, tasksFrame>>

\* Two new okta_login requests arrive when both tasks have returned
TaskAgain(t) ==
    /\ \A u \in Tasks : tpc[u] = "returned"
    /\ tpc' = [u \in Tasks |-> "auto_login"]
    /\ tmpOf' = [u \in Tasks |-> Garbage]
    /\ saved' = <<>>
    /\ UNCHANGED <<files, tasksFrame>>

TasksNext ==
    \E t \in Tasks : TaskAutoLogin(t) \/ TaskExport(t) \/ TaskSave(t) \/ TaskAgain(t)

SpecTasks == TasksInit /\ [][TasksNext]_vars

(***************************************************************************)
(* SpecCascade: one call of fill_first_match or click_first_match           *)
(* (browser/helpers.py), one pass of its for loop at a time.                *)
(***************************************************************************)

\* The selectors of a cascade alone
MaxCandidates == 3

\* A call made on the page: is_visible, fill or click on selector sel's
\* first element, and whether it raised
PageCall(sel, method, raised) == [sel |-> sel, method |-> method, raised |-> raised]

\* A plausible slip: the helper returns True for a visible candidate, whether
\* or not the fill or click raised.
candidate_step_any_visible(answer) ==
    IF answer \in {"ok", "action_error"} THEN "return True" ELSE "continue"

\* helpers.py lines 13-19 / 26-32: the body of the for loop on one candidate;
\* except Exception: continue
candidate_step(answer) == IF answer = "ok" THEN "return True" ELSE "continue"

\* The calls the loop body makes on candidate sel
candidate_calls(kind, sel, answer) ==
    CASE answer = "hidden" -> <<PageCall(sel, "is_visible", FALSE)>>
      [] answer = "probe_error" -> <<PageCall(sel, "is_visible", TRUE)>>
      [] answer = "action_error" ->
            <<PageCall(sel, "is_visible", FALSE), PageCall(sel, kind, TRUE)>>
      [] OTHER -> <<PageCall(sel, "is_visible", FALSE), PageCall(sel, kind, FALSE)>>

CascadeInit ==
    /\ cKind \in {"fill", "click"}
    /\ cOuts \in [1..MaxCandidates -> CandidateAnswers]
    /\ cIdx = 1 /\ cTrace = <<>> /\ cRet = None
    /\ files = <<>> /\ sOp = [op |-> "none"] /\ sBefore = <<>>
    /\ kUrlA = <<>> /\ kUrlB = <<>> /\ kRetA = Ret(<<>>) /\ kRetB = Ret(<<>>) /\ kpc = "done"
    /\ CallVarsUnused /\ TasksUnused /\ LaunchUnused

cascadeFrame == <<keyVars, storeVars, callVars, taskVars, launchVars>>

\* for sel in selectors: one pass of the body
CascadeTry ==
    /\ cRet = None /\ cIdx <= Len(cOuts)
    /\ cTrace' = cTrace \o candidate_calls(cKind, cIdx, cOuts[cIdx])
    /\ IF candidate_step(cOuts[cIdx]) = "return True"
       THEN cRet' = "True" /\ UNCHANGED cIdx
       ELSE cIdx' = cIdx + 1 /\ UNCHANGED cRet
    /\ UNCHANGED <<cKind, cOuts, cascadeFrame>>

\* return False after the loop
CascadeExhausted ==
    /\ cRet = None /\ cIdx > Len(cOuts)
    /\ cRet' = "False"
    /\ UNCHANGED <<cKind, cOuts, cIdx, cTrace, cascadeFrame>>

CascadeNext == CascadeTry \/ CascadeExhausted

SpecCascade == CascadeInit /\ [][CascadeNext]_vars

(***************************************************************************)
(* SpecLaunch: one call of BrowserController._launch_regular or            *)
(* _launch_persistent (browser/controller.py), one launch at a time.       *)
(***************************************************************************)

LaunchConfigs ==
    [mode : {"regular", "persistent"}, name : {"chromium", "firefox"},
     channel : {None, "", "chrome"}]
LaunchAnswers == [first : BOOLEAN, second : BOOLEAN, err1 : DriverErrors, err2 : DriverErrors]

\* The channel the first launch is called with (None: the argument is not
\* passed, or passed as None).  _launch_regular, lines 106-108: only a truthy
\* channel of chromium; _launch_persistent, line 86: the channel of chromium
launch_channel(cfg) ==
    CASE cfg.name # "chromium" -> None
      [] cfg.mode = "regular" /\ cfg.channel = "" -> None
      [] OTHER -> cfg.channel

\* A plausible slip: every failed launch is retried.
retry_allowed_always(channel) == TRUE

\* lines 94 and 113: if channel / if channel_requested
retry_allowed(channel) == channel \notin {None, ""}

\* The driver method a mode launches with
launch_method(cfg) ==
    IF cfg.mode = "regular" THEN "launch" ELSE "launch_persistent_context"

LaunchCall(method, channel) == [method |-> method, channel |-> channel]
LaunchRunning == [kind |-> "running", exc |-> NoExc]
LaunchReturned == [kind |-> "returned", exc |-> NoExc]
LaunchRaised(e) == [kind |-> "raised", exc |-> e]

LaunchInit ==
    /\ lCfg \in LaunchConfigs /\ lAns \in LaunchAnswers
    /\ lCalls = <<>> /\ lOut = LaunchRunning
    /\ files = <<>> /\ sOp = [op |-> "none"] /\ sBefore = <<>>
    /\ kUrlA = <<>> /\ kUrlB = <<>> /\ kRetA = Ret(<<>>) /\ kRetB = Ret(<<>>) /\ kpc = "done"
    /\ CallVarsUnused /\ TasksUnused /\ CascadeUnused

launchFrame == <<keyVars, storeVars, callVars, taskVars, cascadeVars>>

\* lines 87-92 / 110-111: the launch in the try
LaunchFirst ==
    /\ lOut.kind = "running" /\ lCalls = <<>>
    /\ lCalls' = <<LaunchCall(launch_method(lCfg), launch_channel(lCfg))>>
    /\ lOut' = CASE lAns.first -> LaunchReturned
                 [] retry_allowed(launch_channel(lCfg)) -> LaunchRunning
                 [] OTHER -> LaunchRaised(lAns.err1)
    /\ UNCHANGED <<lCfg, lAns, launchFrame>>

\* lines 94-99 / 113-118: the launch in the except clause, without the channel
LaunchRetry ==
    /\ lOut.kind = "running" /\ Len(lCalls) = 1
    /\ lCalls' = Append(lCalls, LaunchCall(launch_method(lCfg), None))
    /\ lOut' = IF lAns.second THEN LaunchReturned ELSE LaunchRaised(lAns.err2)
    /\ UNCHANGED <<lCfg, lAns, launchFrame>>

LaunchNext == LaunchFirst \/ LaunchRetry

SpecLaunch == LaunchInit /\ [][LaunchNext]_vars

(***************************************************************************)
(* The claims about the Session Store (SpecStore).                         *)
(***************************************************************************)

\* The number of entries a storage state holds under a key (none when the
\* key is missing or null).
EntryCount(data, name) ==
    IF data.f[name].p = "list" THEN Len(data.f[name].items) ELSE 0

\* C9: after a successful save(url, blob), load_path(url) finds the key's
\* session file, its content parses to the blob that was saved, and the key's
\* metadata holds this url, this key and the blob's cookie and origin counts,
\* whatever the directory held before.
C9_SaveThenLoad ==
    (sOp.op = "save_session" /\ ~sOp.ret.raised) =>
        LET key == sOp.ret.value
            data == JsonLoad(sOp.tmp).value
            p == get_session_path(files, sOp.url)
            meta == JsonLoad(files[MetaPath(key)])
        IN  /\ ~p.raised /\ p.value.found
            /\ p.value.path = SessionPath(key)
            /\ JsonLoad(files[p.value.path]) = Ret(data)
            /\ ~meta.raised
            /\ meta.value.f["cookie_count"] = FInt(EntryCount(data, "cookies"))
            /\ meta.value.f["origin_count"] = FInt(EntryCount(data, "origins"))
            /\ meta.value.f["url"] = FStr(sOp.url)
            /\ meta.value.f["domain_key"] = FStr(key)

\* A save that replaced a record of the same key: another url's metadata and
\* a blob with other counts.
C9_Witness ==
    /\ sOp.op = "save_session" /\ ~sOp.ret.raised
    /\ EntryCount(JsonLoad(sOp.tmp).value, "cookies") = 2
    /\ EntryCount(JsonLoad(sOp.tmp).value, "origins") = 0
    /\ LET key == sOp.ret.value
           old == JsonLoad(sBefore[MetaPath(key)])
       IN  /\ ~old.raised
           /\ old.value.t = "obj"
           /\ old.value.f["url"] \notin {FAbsent, FStr(sOp.url)}
           /\ old.value.f["cookie_count"] = FInt(0)
           /\ old.value.f["origin_count"] = FInt(1)

\* The stored blob of a url's key is valid data (a JSON object) that holds at
\* least one cookie or at least one origin entry.
HoldsEntries(fs, url) ==
    LET content == fs[SessionPath(DomainKey(url))]
    IN  /\ content.kind = "json"
        /\ content.val.t = "obj"
        /\ EntryCount(content.val, "cookies") + EntryCount(content.val, "origins") > 0

\* C10 as stated: is_effective(url) never raises, and returns true exactly
\* when the key's blob exists, is valid data and holds a cookie or an origin.
C10_AsStated ==
    (sOp.op = "is_session_effective") =>
        /\ ~sOp.ret.raised
        /\ sOp.ret.value = HoldsEntries(files, sOp.url)

\* C10 for the urls urlparse accepts: is_effective(url) returns, and returns
\* true exactly when the key's blob exists, is valid data and holds a cookie
\* or an origin.
C10_ForParsedUrls ==
    (sOp.op = "is_session_effective" /\ ~UrlRaises(sOp.url)) =>
        /\ ~sOp.ret.raised
        /\ sOp.ret.value = HoldsEntries(files, sOp.url)

\* C11: delete(url) returns true exactly when the key's session file or
\* metadata file existed; afterwards get_session_path finds nothing,
\* list_sessions has no entry of the key, and deleting again returns false
\* and changes nothing.
C11_DeleteIdempotent ==
    (sOp.op = "delete_session" /\ ~sOp.ret.raised) =>
        LET key == DomainKey(sOp.url)
            listed == list_sessions(files)
            again == delete_session(files, sOp.url)
        IN  /\ sOp.ret.value = (Exists(sBefore, SessionPath(key)) \/ Exists(sBefore, MetaPath(key)))
            /\ get_session_path(files, sOp.url) = Ret(NotFound)
            /\ \A i \in 1..Len(listed) : listed[i].meta.f["domain_key"] # FStr(key)
            /\ again.ret = Ret(FALSE)
            /\ again.files = files

\* C11's case: a delete that removed a session file and its metadata while
\* another key's metadata stays listed.
C11_Witness ==
    /\ sOp.op = "delete_session" /\ ~sOp.ret.raised /\ sOp.ret.value
    /\ Exists(sBefore, SessionPath(DomainKey(sOp.url)))
    /\ MetaReadable(sBefore[MetaPath(DomainKey(sOp.url))])
    /\ Len(list_sessions(files)) > 0

\* C12: list_sessions returns, and what it returns are exactly the metadata
\* files that parse and hold a domain_key, each with whether the session file
\* of that key exists now; the other "*.meta.json" files are left out.
C12_ListSkipsCorrupted ==
    (sOp.op = "list_sessions") =>
        LET listed == sOp.ret.value
            good == {p \in MetaFiles(files) : MetaReadable(files[p])}
        IN  /\ ~sOp.ret.raised
            /\ Len(listed) = Cardinality(good)
            /\ \A p \in good :
                  \E i \in 1..Len(listed) :
                      /\ listed[i].meta = files[p].val
                      /\ listed[i].session_file_exists =
                            Exists(files, SessionPath(files[p].val.f["domain_key"].str))

\* C12's case: the listing left out an unparseable metadata file that sorts
\* before a readable one.
C12_Witness ==
    /\ sOp.op = "list_sessions"
    /\ Len(sOp.ret.value) > 0
    /\ \E p \in MetaFiles(files), q \in MetaFiles(files) :
          /\ files[p] = Garbage
          /\ MetaReadable(files[q])
          /\ PathLess(p, q)

\* The stored cookies of a blob whose domain holds the filter, letter case
\* aside, in stored order (all of them without a filter).
RECURSIVE MatchingCookies(_, _)
MatchingCookies(cookies, domain_filter) ==
    IF cookies = <<>> THEN <<>>
    ELSE (IF domain_filter.text = <<>>
             \/ IsSubstring(Lower(domain_filter.text), Lower(Head(cookies).domain))
          THEN <<Head(cookies)>> ELSE <<>>)
         \o MatchingCookies(Tail(cookies), domain_filter)

\* The content of a session file is a session: a JSON object whose cookies,
\* when present, are a list.
ReadableSession(content) ==
    /\ content.kind = "json"
    /\ content.val.t = "obj"
    /\ content.val.f["cookies"].p \in {"absent", "list"}

\* C15, as stated: get_cookies never raises and leaves the store alone; it
\* returns an error record when the key has no session file or the file is
\* not a session, and otherwise the matching cookies and their number.
C15_AsStated ==
    (sOp.op = "get_cookies") =>
        /\ ~sOp.ret.raised
        /\ files = sBefore
        /\ LET content == files[SessionPath(DomainKey(sOp.url))]
               stored == IF content.val.f["cookies"].p = "list"
                         THEN content.val.f["cookies"].items ELSE <<>>
           IN  IF ~ReadableSession(content) THEN sOp.ret.value.error # None
               ELSE /\ sOp.ret.value.error = None
                    /\ sOp.ret.value.cookies = MatchingCookies(stored, sOp.domain_filter)
                    /\ sOp.ret.value.count = Len(sOp.ret.value.cookies)

\* C15 where the code does return: the url has a key and the session file,
\* when it parses, is an object whose cookies are a list or missing.
C15_ForSessionBlobs ==
    (sOp.op = "get_cookies" /\ ~UrlRaises(sOp.url)) =>
        LET content == files[SessionPath(DomainKey(sOp.url))]
            stored == IF content.val.f["cookies"].p = "list"
                      THEN content.val.f["cookies"].items ELSE <<>>
        IN  /\ files = sBefore
            /\ content.kind # "json" => (~sOp.ret.raised /\ sOp.ret.value.error # None)
            /\ ReadableSession(content) =>
                  /\ ~sOp.ret.raised
                  /\ sOp.ret.value.error = None
                  /\ sOp.ret.value.cookies = MatchingCookies(stored, sOp.domain_filter)
                  /\ sOp.ret.value.count = Len(sOp.ret.value.cookies)

(***************************************************************************)
(* The claim about concurrent logins (SpecTasks).                          *)
(***************************************************************************)

\* C13: when both tasks have saved, the session file and the metadata of the
\* key are those of the save that returned last.
C13_LastSaveWins ==
    (Len(saved) = 2) =>
        LET last == saved[2]
            key == DomainKey(TaskUrl[last])
            data == JsonLoad(tmpOf[last]).value
        IN  /\ files[SessionPath(key)] = JsonDump(data)
            /\ files[MetaPath(key)] =
                  JsonDump(SessionMeta(TaskUrl[last], key, EntryCount(data, "cookies"),
                                       EntryCount(data, "origins")))

\* C13's case: the two tasks saved different states, the second task first.
C13_Witness ==
    /\ Len(saved) = 2
    /\ saved = <<2, 1>>
    /\ tmpOf[1] # tmpOf[2]
    /\ EntryCount(JsonLoad(tmpOf[1]).value, "cookies")
          # EntryCount(JsonLoad(tmpOf[2]).value, "cookies")

(***************************************************************************)
(* The claims about _domain_key (SpecKey).                                 *)
(***************************************************************************)

\* The urls differ at most in what urlsplit takes for path and query.
SameSchemeAndHost(u, v) == UrlScheme(u) = UrlScheme(v) /\ Netloc(u) = Netloc(v)

KeyBothReturned == kpc = "done" /\ ~kRetA.raised /\ ~kRetB.raised

\* C7 as stated: urls with the same host that differ only in path or query
\* get the same key, that key is the lower-cased host, and no key holds ':'
\* or '/'.
C7_AsStated ==
    KeyBothReturned =>
        /\ SameSchemeAndHost(kUrlA, kUrlB) =>
              /\ kRetA.value = kRetB.value
              /\ kRetA.value = Lower(Netloc(kUrlA))
        /\ ~Contains(kRetA.value, ":") /\ ~Contains(kRetA.value, "/")

\* C7 amended: urls with the same non-empty host that differ only in path or
\* query get the same key, the lower-cased host with ':' replaced by '_';
\* no key holds ':' or '/', the key of a url without a host included.
C7_KeyOfHost ==
    KeyBothReturned =>
        /\ (SameSchemeAndHost(kUrlA, kUrlB) /\ Netloc(kUrlA) # <<>>) =>
              /\ kRetA.value = kRetB.value
              /\ kRetA.value = Replace(Lower(Netloc(kUrlA)), ":", "_")
        /\ ~Contains(kRetA.value, ":") /\ ~Contains(kRetA.value, "/")
        /\ ~Contains(kRetB.value, ":") /\ ~Contains(kRetB.value, "/")

\* Two different urls with one host that holds an upper-case letter and a
\* port, and a url without a host whose text holds a '/'.
C7_Witness ==
    /\ KeyBothReturned
    /\ kUrlA # kUrlB
    /\ SameSchemeAndHost(kUrlA, kUrlB)
    /\ Netloc(kUrlA) = <<"B", ":">>
    /\ kRetA.value = <<"b", "_">>

\* C8 as stated: urls with different hosts get different keys.
C8_AsStated ==
    (KeyBothReturned /\ Netloc(kUrlA) # Netloc(kUrlB)) => kRetA.value # kRetB.value

\* C8 amended: urls whose hosts are non-empty, hold no '_' and differ after
\* lower-casing get different keys.
C8_InjectiveOnHosts ==
    ( /\ KeyBothReturned
      /\ Netloc(kUrlA) # <<>> /\ Netloc(kUrlB) # <<>>
      /\ ~Contains(Netloc(kUrlA), "_") /\ ~Contains(Netloc(kUrlB), "_")
      /\ Lower(Netloc(kUrlA)) # Lower(Netloc(kUrlB)) )
    => kRetA.value # kRetB.value

\* Two hosts that differ in the port only.
C8_Witness ==
    /\ KeyBothReturned
    /\ Netloc(kUrlA) = <<"a", ":">>
    /\ Netloc(kUrlB) = <<"a">>
    /\ kRetA.value # kRetB.value

(***************************************************************************)
(* The claims about perform_login and verify_session (Spec).               *)
(***************************************************************************)

InLogin == call.op = "perform_login"
InVerify == call.op = "verify_session"
Returned == pc = "done"

\* C1, as stated: in perform_login, save_session is called and the sessions
\* directory is written only after the call saw the page off the identity
\* provider with no login field visible.
C1_AsStated ==
    (InLogin /\ (pc = "save" \/ files # snap)) => signalSeen

\* The session of result's key is stored completely: the blob is the exported
\* value and the metadata describes it.
StoredCompletely ==
    LET key == DomainKey(call.url)
        exported == JsonLoad(loc.tmp)
    IN  /\ ~exported.raised
        /\ files[SessionPath(key)] = JsonDump(exported.value)
        /\ files[MetaPath(key)] =
              JsonDump(SessionMeta(call.url, key,
                                   LenOfGet(exported.value, "cookies").value,
                                   LenOfGet(exported.value, "origins").value))

\* C2, as stated: perform_login returns success:true with the url's domain key
\* only when blob and metadata are stored under that key, and when it returns
\* success:false every file of the sessions directory is as it was before the
\* call.
C2_AsStated ==
    (Returned /\ InLogin) =>
        /\ result.kind = "returned"
        /\ IF result.success
           THEN result.domain_key = SomeKey(DomainKey(call.url)) /\ StoredCompletely
           ELSE files = snap

\* C3: when the url's key has no stored blob, verify_session has returned
\* valid:false with domain_key null and the no-stored-session message, without
\* starting the driver, launching a browser or creating a context.
C3_NoSessionNoBrowser ==
    (InVerify /\ ~UrlRaises(call.url) /\ ~Exists(snap, SessionPath(DomainKey(call.url)))) =>
        /\ Returned
        /\ result.kind = "returned"
        /\ result.valid = FALSE
        /\ result.domain_key = NoKey
        /\ result.message.head = "No stored session found for this URL"
        /\ launches = 0
        /\ res = Released

\* C3's case: verify_session returned for a key deleted since its last save.
C3_Witness ==
    /\ Returned /\ InVerify /\ ~UrlRaises(call.url)
    /\ DomainKey(call.url) \in deleted
    /\ ~Exists(files, SessionPath(DomainKey(call.url)))
    /\ result.kind = "returned"

\* The url of the running call had a session file when the call started.
HadSession == ~UrlRaises(call.url) /\ Exists(snap, SessionPath(DomainKey(call.url)))

\* C14: verify_session of a url with a stored session creates its context
\* with the stored session file, calls _is_on_portal once and returns its
\* value as valid; it fills and clicks nothing, never evaluates a second time,
\* and the sessions directory stays as it was.  (When a driver error leaves
\* the block before the evaluation there is none.)
C14_VerifyProbesOnce ==
    (InVerify /\ HadSession) =>
        /\ log = <<>>
        /\ files = snap
        /\ loc.probes <= 1
        /\ res.context => loc.preloaded = Found(SessionPath(DomainKey(call.url)))
        /\ (Returned /\ ~IsExc(exc)) =>
              /\ loc.probes = 1
              /\ loc.preloaded = Found(SessionPath(DomainKey(call.url)))
              /\ result.kind = "returned"
              /\ result.valid = loc.active

\* C14's case: verify_session returned valid:false after finding a login
\* field on a page off the identity provider.
C14_Witness ==
    /\ InVerify /\ HadSession /\ Returned /\ ~IsExc(exc)
    /\ loc.probes = 1 /\ ~loc.active /\ ~driverErr
    /\ result.kind = "returned" /\ result.valid = FALSE

\* C4, as stated: when perform_login or verify_session returns, the driver,
\* the browser, the context and the temporary file are all released.
C4_AsStated ==
    Returned => res = Released

LoginFailure ==
    result.kind = "returned" /\ result.success = FALSE /\ result.domain_key = NoKey
VerifyFailure ==
    result.kind = "returned" /\ result.valid = FALSE

\* C5, as stated: whenever the driver raised an error during the call, the
\* call returns its failure record.
C5_AsStated ==
    (Returned /\ driverErr) => IF InLogin THEN LoginFailure ELSE VerifyFailure

\* C5, for the errors that leave the controlled block: the exception is not
\* propagated; perform_login returns success:false with domain_key null,
\* verify_session valid:false, and the message carries the exception's type
\* and text.  No driver error at all reaches the caller.
C5_CaughtAtBoundary ==
    /\ (Returned /\ IsExc(exc)) =>
          /\ IF InLogin THEN LoginFailure ELSE VerifyFailure
          /\ result.message.type = exc.type
          /\ result.message.text = exc.text
    /\ (Returned /\ driverErr) => result.kind = "returned"

\* C5's case: perform_login returned after a driver error other than a timeout
\* left the block.
C5_Witness ==
    /\ Returned /\ InLogin /\ driverErr
    /\ exc \in DriverErrors /\ exc.type = "Error"
    /\ result.kind = "returned"

MissingCredentials ==
    call.username \in {None, ""} \/ call.password \in {None, ""}

\* C6: in a login call without identifier or secret nothing is filled or
\* clicked, save_session is not reached and the sessions directory stays as it
\* was; the call returns a success:false record.
C6_MissingCredentials ==
    (InLogin /\ MissingCredentials) =>
        /\ log = <<>>
        /\ pc # "save"
        /\ files = snap
        /\ Returned => (result.kind = "returned" /\ result.success = FALSE)

\* C6's case: the page was reached with an identifier and an empty secret,
\* and auto_login returned False.
C6_Witness ==
    /\ Returned /\ InLogin
    /\ call.username = "user" /\ call.password = ""
    /\ result = LoginFailed(call.url)

(***************************************************************************)
(* The claims about the login heuristics engine (Spec).                    *)
(***************************************************************************)

\* auto_login returned True: perform_login is at the export or the save.
AutoLoginTrue == InLogin /\ pc \in {"export", "save"}

\* auto_login returned False, or the call is past it.
AutoLoginLeft == pc \in {"aexit", "handler", "done"}

\* auto_login returned False and nothing was stored.
AutoLoginFalse ==
    /\ AutoLoginLeft
    /\ pc = "aexit" => pending = LoginFailed(call.url)
    /\ files = snap

\* The step was taken, and the step found no candidate to act on.
Ran(name) == \E i \in 1..Len(loc.steps) : loc.steps[i].step = name
Exhausted(name) == \E i \in 1..Len(loc.steps) : loc.steps[i] = Step(name, FALSE)

\* The page saw this fill or click.
Seen(e) == \E i \in 1..Len(log) : log[i] = e

\* The names of the steps taken, in order.
StepNames == [i \in 1..Len(loc.steps) |-> loc.steps[i].step]

\* The steps the attempt cannot do without: the identifier, the secret (on
\* the second page in the two-step flow), Next, Submit, the one-time code and
\* the MFA submit.
RequiredSteps ==
    {"username", "password, second page", "next", "submit", "digit boxes", "mfa submit"}

\* C16, as stated: auto_login does not return True after a required fill or
\* click found no usable candidate.
C16_AsStated ==
    AutoLoginTrue =>
        /\ \A name \in RequiredSteps : ~Exhausted(name)
        /\ Exhausted("password") => Ran("password, second page")

\* C16 for the fills: auto_login does not return True when the identifier,
\* the secret or the one-time code could not be entered.
C16_ForFills ==
    AutoLoginTrue =>
        /\ \A name \in {"username", "password, second page", "digit boxes"} : ~Exhausted(name)
        /\ Exhausted("password") => Ran("password, second page")

\* The two-step flow: the identifier was filled and the secret was not, on
\* the first page.
TwoStep ==
    /\ InLogin /\ Len(loc.steps) >= 2
    /\ loc.steps[1] = Step("username", TRUE)
    /\ loc.steps[2] = Step("password", FALSE)

\* What the page saw of the credential steps, in order.
CredentialLog ==
    LET Credential(e) == e.target \in {"username", "password", "next", "submit"}
    IN  SelectSeq(log, Credential)

FillU == Fill("username", 0, call.username)
FillP == Fill("password", 0, call.password)

IsPrefix(a, b) == Len(a) <= Len(b) /\ a = SubSeq(b, 1, Len(a))

C18_NeitherFillable ==
    (InLogin /\ Exhausted("username") /\ Exhausted("password")) =>
        /\ log = <<>>
        /\ StepNames = <<"username", "password">>
        /\ loc.probes = 1 /\ loc.tick = 0 /\ loc.final_host = None
        /\ AutoLoginFalse

\* C18's case: a login with a TOTP seed returned failure after neither field
\* could be filled.
C18_Witness ==
    /\ InLogin /\ Returned
    /\ Exhausted("username") /\ Exhausted("password")
    /\ call.totp_secret = "JBSWY3DPEHPK3PXP"
    /\ result = LoginFailed(call.url)

\* The evaluations of the signal by the completion poll (the first
\* evaluation of a call is the one before the fills).
PollEvaluations == IF loc.probes > 0 THEN loc.probes - 1 ELSE 0

\* C19: the poll evaluates the signal at most PollTicks times; once the
\* signal held auto_login has returned True and evaluates nothing more; the
\* host is looked at after PollTicks evaluations that failed, and when it is
\* the identity provider's auto_login returns False.
C19_PollBudget ==
    InLogin =>
        /\ PollEvaluations <= PollTicks
        /\ loc.tick <= PollEvaluations
        /\ signalSeen =>
              /\ pc \in {"export", "save"} \/ AutoLoginLeft
              /\ loc.active /\ loc.final_host = None
        /\ loc.final_host # None =>
              /\ loc.tick = PollTicks /\ PollEvaluations = PollTicks /\ ~loc.active
              /\ HasOkta(loc.final_host) => AutoLoginFalse

\* C19's case: a login without a TOTP seed stayed on the identity provider's
\* host for the whole poll and returned failure.
C19_Witness ==
    /\ InLogin /\ Returned
    /\ call.totp_secret = None
    /\ Ran("submit")
    /\ loc.tick = PollTicks /\ HasOkta(loc.final_host)
    /\ result = LoginFailed(call.url)

\* What the page saw of the digit boxes, in order.
BoxLog ==
    LET Box(e) == e.target = "digit box"
    IN  SelectSeq(log, Box)

SixDigits == [i \in 1..6 |-> Fill("digit box", i - 1, OtpCode[i])]

\* C20: the digit boxes are tried with a TOTP seed after no code field
\* matched.  With six boxes or more, box i receives digit i for i = 0..5 in
\* this order and no other box is filled (a fill that raises ends the fills
\* and the attempt), and the MFA submit is run afterwards.  With fewer, no box
\* is filled, the MFA submit is not run and auto_login returns False.
C20_DigitBoxes ==
    (InLogin /\ Ran("digit boxes")) =>
        /\ call.totp_secret \notin {None, ""} /\ Exhausted("otp")
        /\ IsPrefix(BoxLog, SixDigits)
        /\ (loc.count >= 6 /\ loc.otp_ok) =>
              /\ BoxLog = SixDigits
              /\ pc = "mfa_submit" \/ Ran("mfa submit")
        /\ loc.count \in 0..5 =>
              /\ BoxLog = <<>>
              /\ ~Ran("mfa submit") /\ ~Seen(Click("mfa submit"))
              /\ AutoLoginFalse

\* C20's case: seven boxes were found, six were filled, the MFA submit was
\* clicked and the login reached the save.
C20_Witness ==
    /\ InLogin /\ pc = "save"
    /\ loc.count = 7 /\ loc.otp_ok
    /\ Seen(Click("mfa submit"))
    /\ log[Len(log) - 1] = Fill("digit box", 5, OtpCode[6])

\* auto_login returned True at once: it is at the export or past it, without
\* the failure record, and it filled, clicked and polled nothing.
NoOpSuccess ==
    /\ pc \in {"export", "save"} \/ AutoLoginLeft
    /\ pc = "aexit" => pending # LoginFailed(call.url)
    /\ log = <<>> /\ loc.steps = <<>>
    /\ loc.tick = 0 /\ loc.probes <= 1 /\ loc.final_host = None

\* C21, as stated: when the authenticated signal holds on the page
\* auto_login is given, auto_login returns True without a fill, a click, a
\* one-time code or a poll.
C21_AsStated ==
    (InLogin /\ loc.entry = "authenticated") => NoOpSuccess

\* C21, with the credentials: when identifier and secret are given and the
\* authenticated signal holds on the page auto_login is given, auto_login
\* returns True after the one evaluation of line 139, without a fill, a
\* click, a one-time code or a poll.
C21_NoOpWithCredentials ==
    (InLogin /\ loc.entry = "authenticated"
        /\ has_credentials(call.username, call.password)) =>
        (NoOpSuccess /\ loc.probes = 1 /\ loc.active)

\* C21's case: a login with a TOTP seed on a page that is authenticated
\* already reached the save.
C21_Witness ==
    /\ InLogin /\ pc = "save"
    /\ loc.entry = "authenticated"
    /\ call.totp_secret = "JBSWY3DPEHPK3PXP"
    /\ log = <<>>

(***************************************************************************)
(* The claim about the cascades (SpecCascade).                             *)
(***************************************************************************)

\* The visibility probes of the call so far, and its fills or clicks that
\* did not raise.
CascadeProbes ==
    LET IsProbe(c) == c.method = "is_visible"
    IN  SelectSeq(cTrace, IsProbe)
CascadeActed == {i \in 1..Len(cTrace) : cTrace[i] = PageCall(cTrace[i].sel, cKind, FALSE)}

\* C22: a cascade probes its selectors in list order, each once; it fills or
\* clicks only a candidate it has just seen visible; a probe or an action
\* that raises is a miss and the next selector is tried; at most one fill or
\* click succeeds and it is the last call made; the helper returns True
\* exactly when one did, on the first candidate that is visible and whose
\* action succeeds, and False after every selector was tried.
C22_FirstMatch ==
    (cKind # None) =>
        /\ \A j \in 1..Len(CascadeProbes) : CascadeProbes[j].sel = j
        /\ \A i \in 1..Len(cTrace) :
              cTrace[i].method # "is_visible" =>
                  /\ cTrace[i].method = cKind
                  /\ i > 1 /\ cTrace[i - 1] = PageCall(cTrace[i].sel, "is_visible", FALSE)
        /\ Cardinality(CascadeActed) <= 1
        /\ CascadeActed \subseteq {Len(cTrace)}
        /\ cRet = None => CascadeActed = {}
        /\ cRet = "True" =>
              /\ CascadeActed = {Len(cTrace)}
              /\ cTrace[Len(cTrace)].sel = first_match(cOuts)
              /\ Len(CascadeProbes) = first_match(cOuts)
              /\ \A j \in 1..(first_match(cOuts) - 1) : cOuts[j] # "ok"
        /\ cRet = "False" =>
              /\ CascadeActed = {}
              /\ Len(CascadeProbes) = Len(cOuts)
              /\ first_match(cOuts) = 0
              /\ \A j \in 1..Len(cOuts) : cOuts[j] # "ok"

\* C22's case: the first candidate's probe raised, the second was visible
\* and its click raised, the third was clicked.
C22_Witness ==
    /\ cKind = "click" /\ cRet = "True"
    /\ cOuts = <<"probe_error", "action_error", "ok">>
    /\ Len(cTrace) = 5

(***************************************************************************)
(* The claim about the browser launch (SpecLaunch).                        *)
(***************************************************************************)

\* The answers as launch_regular of the lifecycle model takes them
AsEnterAnswers ==
    [start |-> TRUE, newContext |-> TRUE, err |-> lOut.exc,
     launchChannel |-> lAns.first,
     launchPlain |-> IF launch_channel(lCfg) = None THEN lAns.first ELSE lAns.second]

\* C23: a launch method makes at most two launches; the second is made
\* exactly when the first was called with a channel and failed, and it is
\* called without the channel; the method raises the second launch's error
\* when that fails, the first launch's error when there was no channel, and
\* returns otherwise.  The launches counted in the lifecycle model are these.
C23_LaunchRetry ==
    (lOut # <<>> /\ lCalls # <<>>) =>
        LET withChannel == lCalls[1].channel \notin {None, ""}
        IN  /\ Len(lCalls) <= 2
            /\ \A i \in 1..Len(lCalls) : lCalls[i].method = launch_method(lCfg)
            /\ Len(lCalls) = 2 => (withChannel /\ ~lAns.first /\ lCalls[2].channel = None)
            /\ lOut.kind # "running" =>
                  /\ Len(lCalls) = 2 <=> (withChannel /\ ~lAns.first)
                  /\ lOut = CASE lAns.first -> LaunchReturned
                               [] ~withChannel -> LaunchRaised(lAns.err1)
                               [] lAns.second -> LaunchReturned
                               [] OTHER -> LaunchRaised(lAns.err2)
                  /\ (lCfg.mode = "regular" /\ lCfg.channel # "") =>
                        LET l == launch_regular(launch_channel(lCfg), AsEnterAnswers)
                        IN  /\ l.launches = Len(lCalls)
                            /\ l.browser = (lOut.kind = "returned")
                            /\ l.exc = lOut.exc

\* C23's case: the launch with the channel failed, the launch without it
\* failed with another error, and that error was raised.
C23_Witness ==
    /\ lOut # <<>> /\ lOut.kind = "raised"
    /\ Len(lCalls) = 2 /\ lCalls[1].channel = "chrome"
    /\ lAns.err1 # lAns.err2 /\ lOut.exc = lAns.err2

(***************************************************************************)
(* The claim about the order of list_sessions (SpecList).                  *)
(***************************************************************************)

\* The domain keys of the records list_sessions returned, in order
ListedKeys == [i \in 1..Len(sOp.ret.value) |-> sOp.ret.value[i].meta.f["domain_key"].str]

\* C24, as stated: the records list_sessions returns are in ascending order
\* of their domain keys.
C24_AsStated ==
    (sOp.op = "list_sessions") =>
        \A i \in 1..Len(ListedKeys), j \in 1..Len(ListedKeys) :
            i < j => PathLess(ListedKeys[i], ListedKeys[j])

\* C24 for the file names: the records are in ascending order of the names
\* of their metadata files, and there is one for every key that was saved.
C24_ByFileName ==
    (sOp.op = "list_sessions") =>
        /\ \A i \in 1..Len(ListedKeys), j \in 1..Len(ListedKeys) :
              i < j => PathLess(MetaPath(ListedKeys[i]), MetaPath(ListedKeys[j]))
        /\ {ListedKeys[i] : i \in 1..Len(ListedKeys)} =
              {DomainKey(ListUrls[i]) : i \in {j \in 1..Len(ListUrls) :
                                                 Exists(files, MetaPath(DomainKey(ListUrls[j])))}}

(***************************************************************************)
(* The claim about termination (SpecLive).                                 *)
(***************************************************************************)

\* The positions of a login call, in the order the code reaches them
CallOrder ==
    <<"enter", "new_page", "goto", "auto_login", "fill_username", "fill_password",
      "click_next", "fill_password_2", "click_submit", "mfa_switch", "fill_otp",
      "digit_boxes", "mfa_submit", "poll", "export", "save", "aexit", "handler", "done">>

\* How far a call is: its position, and within the poll the ticks used
CallProgress ==
    LET at == CHOOSE i \in 1..Len(CallOrder) : CallOrder[i] = pc
    IN  at * (PollTicks + 1) + loc.tick

\* The steps of auto_login, in the order of the code
AutoLoginSteps ==
    <<"username", "password", "next", "password, second page", "submit",
      "code factor", "otp", "digit boxes", "mfa submit">>

\* The most steps one call of auto_login takes
MostSteps == Len(AutoLoginSteps)

\* C25: every step of a login call takes it further in the order of its
\* positions or uses one of the PollTicks ticks of the poll, so no loop runs
\* forever; until the call has returned a step can be taken, given that the
\* awaits come back; the call launches at most twice, auto_login takes at
\* most MostSteps steps and evaluates the signal at most PollTicks + 1 times;
\* and what perform_login ends with is a result record.
C25_Terminates ==
    /\ [][CallProgress' > CallProgress]_vars
    /\ [](/\ pc # "done" => ENABLED LiveNext
          /\ launches <= 2
          /\ Len(loc.steps) <= MostSteps
          /\ loc.probes <= PollTicks + 1 /\ loc.tick <= PollTicks
          /\ CallProgress <= (Len(CallOrder) + 1) * (PollTicks + 1)
          /\ Returned => result.kind = "returned")

\* C25, as stated: auto_login, once entered, is left by returning success or
\* failure, never by an exception of its own.
C25_AsStated ==
    (InLogin /\ loc.entry # None /\ AutoLoginLeft) => exc.type # TotpError.type

\* C25's case: a call that took every step and polled to the end of the
\* budget has returned.
C25_Witness ==
    /\ InLogin /\ Returned
    /\ Len(loc.steps) = MostSteps
    /\ loc.tick = PollTicks /\ loc.final_host # None

(***************************************************************************)
(* The claims about the files of different keys (SpecStore).               *)
(***************************************************************************)

\* The records list_sessions returns for a key
KeyEntries(fs, key) ==
    SelectSeq(list_sessions(fs), LAMBDA e : e.meta.f["domain_key"] = FStr(key))

\* C26, as stated: a save or delete for a url of one key leaves the session
\* file, the metadata file and the list_sessions records of every other key
\* as they were.
C26_AsStated ==
    (sOp.op \in {"save_session", "delete_session"} /\ ~UrlRaises(sOp.url)) =>
        \A k2 \in StoreKeys \ {DomainKey(sOp.url)} :
            /\ files[SessionPath(k2)] = sBefore[SessionPath(k2)]
            /\ files[MetaPath(k2)] = sBefore[MetaPath(k2)]
            /\ KeyEntries(files, k2) = KeyEntries(sBefore, k2)

\* The key has a session file exactly if it has a metadata file, and then
\* the metadata parses and its counts are those of the session file.
KeyConsistent(fs, key) ==
    LET blob == fs[SessionPath(key)]
        meta == fs[MetaPath(key)]
    IN  /\ Exists(fs, MetaPath(key)) <=> Exists(fs, SessionPath(key))
        /\ Exists(fs, SessionPath(key)) =>
              /\ blob.kind = "json" /\ blob.val.t = "obj"
              /\ meta.kind = "json" /\ meta.val.t = "obj"
              /\ meta.val.f["cookie_count"] = FInt(EntryCount(blob.val, "cookies"))
              /\ meta.val.f["origin_count"] = FInt(EntryCount(blob.val, "origins"))

\* Every key is consistent and every record list_sessions returns says that
\* its session file exists.
StoreConsistent(fs) ==
    /\ \A key \in StoreKeys : KeyConsistent(fs, key)
    /\ \A i \in 1..Len(list_sessions(fs)) : list_sessions(fs)[i].session_file_exists

\* C27, as stated: a save or delete call, a raising one included, that
\* starts on a consistent sessions directory leaves a consistent one.
C27_AsStated ==
    (sOp.op \in {"save_session", "delete_session"} /\ StoreConsistent(sBefore)) =>
        StoreConsistent(files)

(***************************************************************************)
(* The claim about the one-time code (Spec).                               *)
(***************************************************************************)

\* The call has a TOTP seed and the page auto_login was given did not show
\* the authenticated signal.
MfaCase ==
    /\ InLogin
    /\ call.totp_secret \notin {None, ""}
    /\ loc.entry = "login"

\* The code went into the code field, or its six digits into the boxes.
CodeInField == Seen(Fill("otp", 0, "492039"))
CodeInBoxes == \A i \in 1..Len(OtpCode) : Seen(Fill("digit box", i - 1, OtpCode[i]))
CodeEntered == CodeInField \/ CodeInBoxes

\* C28, as stated: with a TOTP seed, on a page that was not authenticated on
\* entry, auto_login returns True only after the one-time code was entered in
\* the code field or in six digit boxes.
C28_AsStated ==
    (MfaCase /\ AutoLoginTrue) => CodeEntered

\* The check of line 139 did not end the call: the fills have begun.
EntryCheckFailed == pc = "fill_username" \/ loc.steps # <<>>

\* C28 where _is_on_portal did not hold on entry: with a TOTP seed the
\* completion poll is reached and auto_login returns True only after the
\* one-time code was entered in the code field or in six digit boxes; when
\* neither took the code auto_login returns False and _is_on_portal was
\* evaluated once, on entry, and never by the poll.
C28_CodeBeforePoll ==
    (MfaCase /\ EntryCheckFailed) =>
        /\ (pc = "poll" \/ AutoLoginTrue \/ loc.probes > 1 \/ loc.final_host # None)
              => CodeEntered
        /\ Exhausted("digit boxes") =>
              /\ ~CodeInField
              /\ AutoLoginFalse
              /\ loc.probes = 1 /\ loc.tick = 0 /\ loc.final_host = None

\* C28's case of failure: after Submit was clicked the code field was not
\* found and fewer than six boxes were, and auto_login returned False.
C28_Witness ==
    /\ MfaCase /\ pc = "aexit" /\ pending = LoginFailed(call.url)
    /\ Seen(Click("submit")) /\ Exhausted("otp") /\ loc.count = 5

====
